---- MODULE Spec2Model ----
(***************************************************************************)
(* Model of simple-mcp: the async task registry (task_store.go) and the    *)
(* async job orchestrator (handleAsyncTask in main.go).                    *)
(*                                                                         *)
(* Identifiers are sequences of one-character strings so that              *)
(* strings.ToLower / strings.ToUpper are modelled by what they do to each  *)
(* character.  Time is a logical clock: 0 is Go's zero time.Time.          *)
(***************************************************************************)
EXTENDS Naturals, Integers, Sequences, FiniteSets, TLC

VARIABLES
    tasks,      \* TaskStore.tasks: lower-cased id -> AsyncTask
    maxTasks,   \* configured maximum of tracked records, 0 = unbounded
    now,        \* the wall clock read by time.Now()
    ret,        \* the last registry call made by a client, with its result
                \* (for SetStatus and Delete: whether the id was known)
    calls,      \* number of registry writes made by clients so far
    hpc,        \* request handler -> position in handleAsyncTask
    htool,      \* request handler -> tool (job type) it was invoked for
    hjob,       \* request handler -> jobID it generated
    hslot,      \* request handler -> id PrepareSlot signalled as evictable
    hresp,      \* request handler -> last response sent to the caller
    gpc,        \* job number -> position of its background goroutine
    nextJob,    \* number of job ids generated so far
    hostAlive,  \* FALSE once a panic escaped a goroutine (process crashed)
    mu,         \* TaskStore.mu: write-locked?, number of read locks held
    wr,         \* the job goroutine's position inside TaskStore.SetStatus
    rd,         \* a request handler's position inside Get / FormatStatus
    command,    \* item.Command handed to executeCommand
    timeoutSeconds, \* item.TimeoutSeconds handed to executeCommand
    runs,       \* executeCommand invocations: params, position, results
    fs,         \* the filesystem: absolute path -> directory, file or symlink
    fret,       \* the last scratch-space file operation and its result
    fileOps     \* number of writing file operations made so far

vars == <<tasks, maxTasks, now, ret, calls, hpc, htool, hjob, hslot, hresp, gpc, nextJob, hostAlive,
          mu, wr, rd, command, timeoutSeconds, runs, fs, fret, fileOps>>
raceVars == <<mu, wr, rd>>
execVars == <<command, timeoutSeconds, runs>>
fsVars == <<fs, fret, fileOps>>
storeVars == <<tasks, maxTasks, now>>
orchVars == <<hpc, htool, hjob, hslot, hresp, gpc, nextJob, hostAlive>>

----------------------------------------------------------------------------
(* Bounds *)

MaxTime == 2        \* the clock stops ticking here
MaxTasks == 2       \* capacity given to NewTaskStore in the bounded runs
MaxCalls == 4       \* registry writes a client sequence may contain
MaxJobs == 2        \* job ids the orchestrator may generate
NumHandlers == 2    \* request handlers the HTTP server runs concurrently

----------------------------------------------------------------------------
(* Identifiers and letter case *)

\* "i" / "I" are an ordinary ASCII pair; "U+0131" stands for the single
\* character LATIN SMALL LETTER DOTLESS I, whose upper case is "I" and which
\* is its own lower case; "1" has no case.
Chars == {"i", "I", "U+0131", "1"}

ToLowerChar(c) == IF c = "I" THEN "i" ELSE c

ToUpperChar(c) == IF c \in {"i", "U+0131"} THEN "I" ELSE c

ToLower(s) == [n \in 1..Len(s) |-> ToLowerChar(s[n])]

ToUpper(s) == [n \in 1..Len(s) |-> ToUpperChar(s[n])]

\* identifiers handed to the registry by its clients
Ids == {<<c>> : c \in Chars}

Tools == {"Upgrade", "Reboot"}

Statuses == {"pending", "running", "completed", "failed"}

NoId == <<>>

----------------------------------------------------------------------------
(* AsyncTask and TaskStore *)

NoTask == [ID |-> NoId, ToolName |-> "", Status |-> "", Message |-> "",
           StartTime |-> 0, EndTime |-> 0]

NewTaskStore == <<>>

IsActive(status) == status = "pending" \/ status = "running"

IsTerminal(status) == status = "completed" \/ status = "failed"

NewTask(id, toolName, t) ==
    [ID |-> id, ToolName |-> toolName, Status |-> "pending",
     Message |-> "Job has been queued.", StartTime |-> t, EndTime |-> 0]

Create(ts, id, toolName, t) ==
    [k \in DOMAIN ts \cup {ToLower(id)} |->
        IF k = ToLower(id) THEN NewTask(id, toolName, t) ELSE ts[k]]

Get(ts, id) ==
    IF ToLower(id) \in DOMAIN ts
    THEN [task |-> ts[ToLower(id)], ok |-> TRUE]
    ELSE [task |-> NoTask, ok |-> FALSE]

\* SetStatus inserting a record when the id is unknown
SetStatus_CreatesMissing(ts, id, status, message, t) ==
    [k \in DOMAIN ts \cup {ToLower(id)} |->
        IF k # ToLower(id)
        THEN ts[k]
        ELSE [ID |-> id,
              ToolName |-> IF k \in DOMAIN ts THEN ts[k].ToolName ELSE "",
              Status |-> status,
              Message |-> message,
              StartTime |-> IF k \in DOMAIN ts THEN ts[k].StartTime ELSE 0,
              EndTime |-> IF status = "completed" \/ status = "failed"
                          THEN t
                          ELSE IF k \in DOMAIN ts THEN ts[k].EndTime ELSE 0]]

\* SetStatus stamping EndTime on every status write
SetStatus_AlwaysEnd(ts, id, status, message, t) ==
    IF ToLower(id) \notin DOMAIN ts
    THEN ts
    ELSE [ts EXCEPT ![ToLower(id)] =
            [@ EXCEPT !.Status = status, !.Message = message, !.EndTime = t]]

\* SetStatus storing a rebuilt record: the id as the caller spelled it
SetStatus_Rebuilds(ts, id, status, message, t) ==
    IF ToLower(id) \notin DOMAIN ts
    THEN ts
    ELSE [ts EXCEPT ![ToLower(id)] =
            [ID |-> id, ToolName |-> @.ToolName, Status |-> status, Message |-> message,
             StartTime |-> @.StartTime,
             EndTime |-> IF status = "completed" \/ status = "failed" THEN t ELSE @.EndTime]]

SetStatus(ts, id, status, message, t) ==
    IF ToLower(id) \notin DOMAIN ts
    THEN ts
    ELSE [ts EXCEPT ![ToLower(id)] =
            [@ EXCEPT !.Status = status,
                      !.Message = message,
                      !.EndTime = IF status = "completed" \/ status = "failed"
                                  THEN t ELSE @]]

ActiveKeys(ts) == {k \in DOMAIN ts : ts[k].Status = "pending" \/ ts[k].Status = "running"}

\* all orders in which the range loop may visit the keys in S
Orders(S) == {o \in [1..Cardinality(S) -> S] : \A k \in S : \E n \in DOMAIN o : o[n] = k}

\* ListActiveTasks with the status test narrowed to "running"
ListActiveTasks_OnlyRunning(ts) ==
    {[n \in DOMAIN o |-> ts[o[n]]] : o \in Orders({k \in DOMAIN ts : ts[k].Status = "running"})}

\* the slices ListActiveTasks may return: map iteration order is unspecified
ListActiveTasks(ts) == {[n \in DOMAIN o |-> ts[o[n]]] : o \in Orders(ActiveKeys(ts))}

\* HasActiveTask with the status test narrowed to "running"
HasActiveTask_OnlyRunning(ts, toolName) ==
    \E k \in DOMAIN ts : ts[k].ToolName = toolName /\ ts[k].Status = "running"

HasActiveTask(ts, toolName) ==
    \E k \in DOMAIN ts :
        ts[k].ToolName = toolName /\ (ts[k].Status = "pending" \/ ts[k].Status = "running")

\* Delete looking the id up as given, without lower-casing it
Delete_CaseSensitive(ts, id) == [k \in DOMAIN ts \ {id} |-> ts[k]]

Delete(ts, id) == [k \in DOMAIN ts \ {ToLower(id)} |-> ts[k]]

TerminalKeys(ts) == {k \in DOMAIN ts : IsTerminal(ts[k].Status)}

OldestTerminal(ts) ==
    {k \in TerminalKeys(ts) : \A o \in TerminalKeys(ts) : ts[k].EndTime <= ts[o].EndTime}

\* PrepareSlot reporting success when the registry is full of active jobs
PrepareSlot_SilentWhenFull(ts, max) ==
    IF Cardinality(DOMAIN ts) < max \/ TerminalKeys(ts) = {}
    THEN {[id |-> NoId, err |-> FALSE]}
    ELSE {[id |-> ts[k].ID, err |-> FALSE] : k \in OldestTerminal(ts)}

\* PrepareSlot naming a finished record without looking at the capacity
PrepareSlot_NoCapacityCheck(ts, max) ==
    IF TerminalKeys(ts) = {}
    THEN {[id |-> NoId, err |-> Cardinality(DOMAIN ts) >= max]}
    ELSE {[id |-> ts[k].ID, err |-> FALSE] : k \in OldestTerminal(ts)}

\* PrepareSlot choosing the oldest record whatever its status
PrepareSlot_AnyStatus(ts, max) ==
    IF Cardinality(DOMAIN ts) < max
    THEN {[id |-> NoId, err |-> FALSE]}
    ELSE {[id |-> ts[k].ID, err |-> FALSE] :
            k \in {k \in DOMAIN ts : \A o \in DOMAIN ts : ts[k].EndTime <= ts[o].EndTime}}

\* PrepareSlot with the end-time comparison reversed
PrepareSlot_Newest(ts, max) ==
    IF Cardinality(DOMAIN ts) < max
    THEN {[id |-> NoId, err |-> FALSE]}
    ELSE IF TerminalKeys(ts) = {}
         THEN {[id |-> NoId, err |-> TRUE]}
         ELSE {[id |-> ts[k].ID, err |-> FALSE] :
                 k \in {k \in TerminalKeys(ts) :
                          \A o \in TerminalKeys(ts) : ts[k].EndTime >= ts[o].EndTime}}

\* the results PrepareSlot may return: the evictable id (NoId if none is
\* needed) and whether it failed with the capacity error
PrepareSlot(ts, max) ==
    IF Cardinality(DOMAIN ts) < max
    THEN {[id |-> NoId, err |-> FALSE]}
    ELSE IF TerminalKeys(ts) = {}
         THEN {[id |-> NoId, err |-> TRUE]}
         ELSE {[id |-> ts[k].ID, err |-> FALSE] : k \in OldestTerminal(ts)}

----------------------------------------------------------------------------
(* Registry clients: any sequence of registry calls *)

Call(op, id, tool, status, task, ok, list, err) ==
    [op |-> op, id |-> id, tool |-> tool, status |-> status,
     task |-> task, ok |-> ok, list |-> list, err |-> err]

NoCall == Call("", NoId, "", "", NoTask, FALSE, <<>>, FALSE)

Tick ==
    /\ now < MaxTime
    /\ now' = now + 1
    /\ UNCHANGED <<raceVars, execVars, fsVars, tasks, maxTasks, ret, calls, orchVars>>

CreateOp ==
    \E id \in Ids, tool \in Tools :
        /\ calls < MaxCalls
        /\ tasks' = Create(tasks, id, tool, now)
        /\ ret' = Call("Create", id, tool, "", NewTask(id, tool, now), TRUE, <<>>, FALSE)
        /\ calls' = calls + 1
        /\ UNCHANGED <<raceVars, execVars, fsVars, maxTasks, now, orchVars>>

GetOp ==
    \E id \in Ids :
        /\ ret' = Call("Get", id, "", "", Get(tasks, id).task, Get(tasks, id).ok, <<>>, FALSE)
        /\ UNCHANGED <<raceVars, execVars, fsVars, storeVars, calls, orchVars>>

SetStatusOp ==
    \E id \in Ids, status \in Statuses :
        /\ calls < MaxCalls
        /\ tasks' = SetStatus(tasks, id, status, "msg", now)
        /\ ret' = Call("SetStatus", id, "", status, NoTask, Get(tasks, id).ok, <<>>, FALSE)
        /\ calls' = calls + 1
        /\ UNCHANGED <<raceVars, execVars, fsVars, maxTasks, now, orchVars>>

ListActiveTasksOp ==
    \E l \in ListActiveTasks(tasks) :
        /\ ret' = Call("ListActiveTasks", NoId, "", "", NoTask, FALSE, l, FALSE)
        /\ UNCHANGED <<raceVars, execVars, fsVars, storeVars, calls, orchVars>>

HasActiveTaskOp ==
    \E tool \in Tools :
        /\ ret' = Call("HasActiveTask", NoId, tool, "", NoTask, HasActiveTask(tasks, tool), <<>>, FALSE)
        /\ UNCHANGED <<raceVars, execVars, fsVars, storeVars, calls, orchVars>>

DeleteOp ==
    \E id \in Ids :
        /\ calls < MaxCalls
        /\ tasks' = Delete(tasks, id)
        /\ ret' = Call("Delete", id, "", "", NoTask, Get(tasks, id).ok, <<>>, FALSE)
        /\ calls' = calls + 1
        /\ UNCHANGED <<raceVars, execVars, fsVars, maxTasks, now, orchVars>>

\* the URI prefix handleAsyncTask puts before the job id
TaskURIPrefix == "simple-mcp://tasks/"

\* what a caller may pass as taskID: a bare id or the task URI
TaskStatusArgs == Ids \cup {<<TaskURIPrefix>> \o id : id \in Ids}

\* AsyncTask.FormatStatus: status, duration and message of the record
FormatStatus(task, t) ==
    [Status |-> task.Status,
     Label |-> CASE task.Status = "completed" -> "Completed In"
                 [] task.Status = "failed" -> "Failed After"
                 [] OTHER -> "Running For",
     Duration |-> IF task.Status = "completed" \/ task.Status = "failed"
                  THEN IF task.EndTime # 0 THEN task.EndTime - task.StartTime ELSE 0
                  ELSE t - task.StartTime,
     Message |-> task.Message]

\* the TaskStatus tool looking the taskID up as it is given
TaskStatus_NoStrip(ts, taskID, t) ==
    IF Get(ts, taskID).ok
    THEN [found |-> TRUE, text |-> <<FormatStatus(Get(ts, taskID).task, t)>>]
    ELSE [found |-> FALSE, text |-> <<>>]

\* the TaskStatus tool: strip the URI prefix, Get, FormatStatus
TaskStatus(ts, taskID, t) ==
    LET id == IF taskID # <<>> /\ Head(taskID) = TaskURIPrefix THEN Tail(taskID) ELSE taskID
    IN IF Get(ts, id).ok
       THEN [found |-> TRUE, text |-> <<FormatStatus(Get(ts, id).task, t)>>]
       ELSE [found |-> FALSE, text |-> <<>>]

TaskStatusOp ==
    \E taskID \in TaskStatusArgs :
        /\ ret' = Call("TaskStatus", taskID, "", "", NoTask,
                       TaskStatus(tasks, taskID, now).found,
                       TaskStatus(tasks, taskID, now).text, FALSE)
        /\ UNCHANGED <<raceVars, execVars, fsVars, storeVars, calls, orchVars>>

PrepareSlotOp ==
    \E r \in PrepareSlot(tasks, maxTasks) :
        /\ ret' = Call("PrepareSlot", r.id, "", "", NoTask, FALSE, <<>>, r.err)
        /\ UNCHANGED <<raceVars, execVars, fsVars, storeVars, calls, orchVars>>

----------------------------------------------------------------------------
(* Job orchestrator: handleAsyncTask and its background goroutine *)

Handlers == 1..NumHandlers

Jobs == 1..MaxJobs

\* uuid.NewString(): a fresh lower-case identifier for the n-th job
JobId(n) == [k \in 1..n |-> "1"]

QueuedMsg == "Job has been queued."

RunningMsg == "Job is executing..."

OutputMsg == "output"

ErrorMsg == "error. Output: output"

PanicMsg == "failed with an internal server panic"

\* the ways executeCommand can return
ExecOutcomes == {"succeeded", "failed", "timedout", "spawnerr"}

\* requests that have been received and may still generate a job id
InFlight == {h \in Handlers : hpc[h] # "idle"}

\* a tool request reaches the handler of an async tool
HInvoke(h) ==
    \E tool \in Tools :
        /\ hostAlive
        /\ hpc[h] = "idle"
        /\ nextJob + Cardinality(InFlight) < MaxJobs
        /\ hpc' = [hpc EXCEPT ![h] = "check"]
        /\ htool' = [htool EXCEPT ![h] = tool]
        /\ hresp' = [hresp EXCEPT ![h] = ""]
        /\ UNCHANGED <<raceVars, execVars, fsVars, storeVars, ret, calls, hjob, hslot, gpc, nextJob, hostAlive>>

\* currentItem.Parameters: the parameters the tool declares
ToolParameters == <<"host", "port">>

\* request.Params.Arguments: each argument present is a string or a number
RequestArguments ==
    UNION {[names -> {"string", "number"}] : names \in SUBSET {"host", "port"}}

\* the argument read with a default: a missing one is the empty string
RequireString_Default(arguments, paramName) == [ok |-> TRUE, err |-> ""]

\* request.RequireString(paramName)
RequireString(arguments, paramName) ==
    IF paramName \notin DOMAIN arguments
    THEN [ok |-> FALSE, err |-> "required argument not found"]
    ELSE IF arguments[paramName] # "string"
    THEN [ok |-> FALSE, err |-> "argument is not a string"]
    ELSE [ok |-> TRUE, err |-> ""]

RECURSIVE BindParameters(_, _)
\* for _, paramName := range currentItem.Parameters: the first error ends it
BindParameters(parameters, arguments) ==
    IF parameters = <<>>
    THEN [ok |-> TRUE, err |-> ""]
    ELSE IF ~RequireString(arguments, Head(parameters)).ok
    THEN RequireString(arguments, Head(parameters))
    ELSE BindParameters(Tail(parameters), arguments)

\* return mcp.NewToolResultError(err.Error()): the handler ends here
HRejectParameters(h, err) ==
    /\ hostAlive
    /\ hpc[h] = "idle"
    /\ hresp' = [hresp EXCEPT ![h] = err]
    /\ UNCHANGED <<raceVars, execVars, fsVars, storeVars, ret, calls, hpc, htool, hjob, hslot, gpc, nextJob, hostAlive>>

\* the handler registerConfigTools installs for an async tool: bind the
\* declared parameters, then handleAsyncTask
HHandler(h, arguments) ==
    IF BindParameters(ToolParameters, arguments).ok
    THEN HInvoke(h)
    ELSE HRejectParameters(h, BindParameters(ToolParameters, arguments).err)

\* the admission check going on to Create although the type is active
HCheckActive_CreatesAnyway(h) ==
    /\ hostAlive
    /\ hpc[h] = "check"
    /\ hpc' = [hpc EXCEPT ![h] = "create"]
    /\ hresp' = IF HasActiveTask(tasks, htool[h])
                THEN [hresp EXCEPT ![h] = "already in progress"]
                ELSE hresp
    /\ UNCHANGED <<raceVars, execVars, fsVars, storeVars, ret, calls, htool, hjob, hslot, gpc, nextJob, hostAlive>>

\* if taskStore.HasActiveTask(currentItem.Name) { return error }
HCheckActive(h) ==
    /\ hostAlive
    /\ hpc[h] = "check"
    /\ IF HasActiveTask(tasks, htool[h])
       THEN /\ hpc' = [hpc EXCEPT ![h] = "idle"]
            /\ hresp' = [hresp EXCEPT ![h] = "already in progress"]
            /\ htool' = [htool EXCEPT ![h] = ""]
       ELSE /\ hpc' = [hpc EXCEPT ![h] = "create"]
            /\ hresp' = hresp
            /\ htool' = htool
    /\ UNCHANGED <<raceVars, execVars, fsVars, storeVars, ret, calls, hjob, hslot, gpc, nextJob, hostAlive>>

\* jobID := uuid.NewString(); taskStore.Create(jobID, name); go func() {...}()
HCreate(h) ==
    /\ hostAlive
    /\ hpc[h] = "create"
    /\ nextJob' = nextJob + 1
    /\ hjob' = [hjob EXCEPT ![h] = JobId(nextJob + 1)]
    /\ tasks' = Create(tasks, JobId(nextJob + 1), htool[h], now)
    /\ gpc' = [gpc EXCEPT ![nextJob + 1] = "start"]
    /\ hpc' = [hpc EXCEPT ![h] = "respond"]
    /\ UNCHANGED <<raceVars, execVars, fsVars, maxTasks, now, ret, calls, htool, hslot, hresp, hostAlive>>

\* the handler answering only when the command of its job has ended
HRespond_WaitsForJob(h) ==
    /\ hostAlive
    /\ hpc[h] = "respond"
    /\ \A j \in Jobs : JobId(j) = hjob[h] => gpc[j] \in {"exit", "done"}
    /\ hpc' = [hpc EXCEPT ![h] = "idle"]
    /\ hresp' = [hresp EXCEPT ![h] = "accepted"]
    /\ htool' = [htool EXCEPT ![h] = ""]
    /\ hjob' = [hjob EXCEPT ![h] = NoId]
    /\ UNCHANGED <<raceVars, execVars, fsVars, storeVars, ret, calls, hslot, gpc, nextJob, hostAlive>>

\* return mcp.NewToolResultResource(taskURI, initialContents)
HRespond(h) ==
    /\ hostAlive
    /\ hpc[h] = "respond"
    /\ hpc' = [hpc EXCEPT ![h] = "idle"]
    /\ hresp' = [hresp EXCEPT ![h] = "accepted"]
    /\ htool' = [htool EXCEPT ![h] = ""]
    /\ hjob' = [hjob EXCEPT ![h] = NoId]
    /\ UNCHANGED <<raceVars, execVars, fsVars, storeVars, ret, calls, hslot, gpc, nextJob, hostAlive>>

\* the deferred function writing "failed" whether or not there was a panic
DeferredRecover_AlwaysFail(ts, id, panicked, t) ==
    [tasks |-> SetStatus(ts, id, "failed", PanicMsg, t), alive |-> TRUE]

\* the goroutine without its deferred recover()
DeferredRecover_NoRecover(ts, id, panicked, t) ==
    [tasks |-> ts, alive |-> ~panicked]

\* the deferred function of the goroutine: recover() and, after a panic,
\* the status write; alive tells whether the process survives
DeferredRecover(ts, id, panicked, t) ==
    [tasks |-> IF panicked THEN SetStatus(ts, id, "failed", PanicMsg, t) ELSE ts,
     alive |-> TRUE]

\* taskStore.SetStatus(jobID, "running", "Job is executing...")
GStart(j) ==
    /\ hostAlive
    /\ gpc[j] = "start"
    /\ tasks' = SetStatus(tasks, JobId(j), "running", RunningMsg, now)
    /\ gpc' = [gpc EXCEPT ![j] = "exec"]
    /\ UNCHANGED <<raceVars, execVars, fsVars, maxTasks, now, ret, calls, hpc, htool, hjob, hslot, hresp, nextJob, hostAlive>>

\* executeCommand returned: the terminal status write
GFinish(j) ==
    \E outcome \in ExecOutcomes :
        /\ hostAlive
        /\ gpc[j] = "exec"
        /\ tasks' = IF outcome = "succeeded"
                    THEN SetStatus(tasks, JobId(j), "completed", OutputMsg, now)
                    ELSE SetStatus(tasks, JobId(j), "failed", ErrorMsg, now)
        /\ gpc' = [gpc EXCEPT ![j] = "exit"]
        /\ UNCHANGED <<raceVars, execVars, fsVars, maxTasks, now, ret, calls, hpc, htool, hjob, hslot, hresp, nextJob, hostAlive>>

\* the deferred function writing "failed" when the goroutine function returns
GExit_FailsAgain(j) ==
    /\ hostAlive
    /\ gpc[j] = "exit"
    /\ tasks' = SetStatus(tasks, JobId(j), "failed", PanicMsg, now)
    /\ hostAlive' = hostAlive
    /\ gpc' = [gpc EXCEPT ![j] = "done"]
    /\ UNCHANGED <<raceVars, execVars, fsVars, maxTasks, now, ret, calls, hpc, htool, hjob, hslot, hresp, nextJob>>

\* the goroutine function returns: the deferred function runs without a panic
GExit(j) ==
    /\ hostAlive
    /\ gpc[j] = "exit"
    /\ tasks' = DeferredRecover(tasks, JobId(j), FALSE, now).tasks
    /\ hostAlive' = DeferredRecover(tasks, JobId(j), FALSE, now).alive
    /\ gpc' = [gpc EXCEPT ![j] = "done"]
    /\ UNCHANGED <<raceVars, execVars, fsVars, maxTasks, now, ret, calls, hpc, htool, hjob, hslot, hresp, nextJob>>

\* a panic while the command is executed unwinds into the deferred function
GPanic(j) ==
    /\ hostAlive
    /\ gpc[j] = "exec"
    /\ tasks' = DeferredRecover(tasks, JobId(j), TRUE, now).tasks
    /\ hostAlive' = DeferredRecover(tasks, JobId(j), TRUE, now).alive
    /\ gpc' = [gpc EXCEPT ![j] = "done"]
    /\ UNCHANGED <<raceVars, execVars, fsVars, maxTasks, now, ret, calls, hpc, htool, hjob, hslot, hresp, nextJob>>

\* cmd.CombinedOutput() waits for the output pipe to be closed; a child of
\* the shell that keeps the pipe open and never exits blocks it for good,
\* the timeout only kills the shell itself
GBlock(j) ==
    /\ hostAlive
    /\ gpc[j] = "exec"
    /\ gpc' = [gpc EXCEPT ![j] = "blocked"]
    /\ UNCHANGED <<raceVars, execVars, fsVars, storeVars, ret, calls, hpc, htool, hjob, hslot, hresp, nextJob, hostAlive>>

\* admission with a bounded registry: PrepareSlot, Delete, then the
\* admission of handleAsyncTask
HInvokeBounded(h) ==
    \E tool \in Tools :
        /\ hostAlive
        /\ hpc[h] = "idle"
        /\ nextJob + Cardinality(InFlight) < MaxJobs
        /\ hpc' = [hpc EXCEPT ![h] = "prepare"]
        /\ htool' = [htool EXCEPT ![h] = tool]
        /\ hresp' = [hresp EXCEPT ![h] = ""]
        /\ UNCHANGED <<raceVars, execVars, fsVars, storeVars, ret, calls, hjob, hslot, gpc, nextJob, hostAlive>>

HPrepareSlot(h) ==
    \E r \in PrepareSlot(tasks, maxTasks) :
        /\ hostAlive
        /\ hpc[h] = "prepare"
        /\ IF r.err
           THEN /\ hpc' = [hpc EXCEPT ![h] = "idle"]
                /\ hresp' = [hresp EXCEPT ![h] = "task store full"]
                /\ hslot' = hslot
           ELSE /\ hpc' = [hpc EXCEPT ![h] = "evict"]
                /\ hresp' = hresp
                /\ hslot' = [hslot EXCEPT ![h] = r.id]
        /\ UNCHANGED <<raceVars, execVars, fsVars, storeVars, ret, calls, htool, hjob, gpc, nextJob, hostAlive>>

HEvict(h) ==
    /\ hostAlive
    /\ hpc[h] = "evict"
    /\ tasks' = IF hslot[h] = NoId THEN tasks ELSE Delete(tasks, hslot[h])
    /\ hpc' = [hpc EXCEPT ![h] = "check"]
    /\ UNCHANGED <<raceVars, execVars, fsVars, maxTasks, now, ret, calls, htool, hjob, hslot, hresp, gpc, nextJob, hostAlive>>

----------------------------------------------------------------------------
(* executeCommand: building the shell command and running it              *)
(*                                                                         *)
(* Text is a sequence of tokens.  A word token stands for a run of letters,*)
(* digits and underscores; the other tokens are single shell-significant   *)
(* characters or operators.                                                *)

\* tokens made only of characters allowed in a shell variable name
NameTokens == {"echo", "touch", "F", "dummy", "safe", "value", "text",
               "bad", "name", "_MCP_VAR_"}

\* shell control operators: each ends one command and starts the next
ControlOperators == {";", "&&", "|"}

\* parameter names and values a caller may send
TextName == <<"text">>
BadName == <<"bad", "-", "name", ";", " ", "touch", " ", "F">>
ParamNames == {TextName, BadName}
ParamValues == {<<"dummy">>,
                <<"dummy", ";", " ", "touch", " ", "F">>,
                <<"dummy", " ", "&&", " ", "touch", " ", "F">>,
                <<"dummy", " ", "|", " ", "touch", " ", "F">>,
                <<"safe", " ", "value">>}

\* parameter sets: none, or one name bound to one value
ParamSets == {<<>>} \cup {[k \in {n} |-> v] : n \in ParamNames, v \in ParamValues}

\* a command template as text/template sees it: text nodes and
\* field references; wellFormed is FALSE when Parse rejects the text
TextNode(t) == [kind |-> "text", s |-> t]
FieldNode(n) == [kind |-> "field", s |-> n]
NoCommand == [wellFormed |-> TRUE, nodes |-> <<>>]

\* echo {{.text}}
EchoText == [wellFormed |-> TRUE, nodes |-> <<TextNode(<<"echo", " ">>), FieldNode(TextName)>>]
\* echo {{index . "bad-name; touch F"}}
EchoBadName == [wellFormed |-> TRUE, nodes |-> <<TextNode(<<"echo", " ">>), FieldNode(BadName)>>]
\* echo {{.missing_end_brace
Unclosed == [wellFormed |-> FALSE, nodes |-> <<>>]
Commands == {EchoText, EchoBadName, Unclosed}

\* envVarName := fmt.Sprintf("_MCP_VAR_%s", key)
EnvVarName(key) == <<"_MCP_VAR_">> \o key

\* envVars: the NAME=value entries appended to cmd.Env
EnvVars(params) ==
    [n \in {EnvVarName(k) : k \in DOMAIN params} |->
        params[CHOOSE k \in DOMAIN params : EnvVarName(k) = n]]

\* the old executeCommand: the template is executed on the parameter values
TemplateData_Inline(params) == params

\* templateData[key] = "$" + envVarName
TemplateData(params) == [k \in DOMAIN params |-> <<"$">> \o EnvVarName(k)]

RECURSIVE Execute(_, _)
\* tmpl.Execute(&buf, templateData) with map[string]string data: a key the
\* map lacks yields the zero value of string, and no error
Execute(nodes, data) ==
    IF nodes = <<>>
    THEN [ok |-> TRUE, out |-> <<>>]
    ELSE LET first == Head(nodes)
             text == IF first.kind = "text"
                     THEN first.s
                     ELSE IF first.s \in DOMAIN data THEN data[first.s] ELSE <<>>
         IN [ok |-> TRUE, out |-> text \o Execute(Tail(nodes), data).out]

RECURSIVE SplitOn(_, _)
\* the pieces of s between the tokens of seps
SplitOn(s, seps) ==
    IF \A n \in 1..Len(s) : s[n] \notin seps
    THEN <<s>>
    ELSE LET n == CHOOSE m \in 1..Len(s) :
                     s[m] \in seps /\ \A l \in 1..(m - 1) : s[l] \notin seps
         IN <<SubSeq(s, 1, n - 1)>> \o SplitOn(SubSeq(s, n + 1, Len(s)), seps)

\* length of the longest prefix of s that is a variable name
NameLen(s) ==
    IF \A n \in 1..Len(s) : s[n] \in NameTokens
    THEN Len(s)
    ELSE (CHOOSE m \in 1..Len(s) :
             s[m] \notin NameTokens /\ \A l \in 1..(m - 1) : s[l] \in NameTokens) - 1

RECURSIVE Expand(_, _)
\* sh parameter expansion: $NAME becomes the variable's value, nothing if unset
Expand(s, env) ==
    IF s = <<>>
    THEN <<>>
    ELSE IF Head(s) = "$" /\ NameLen(Tail(s)) > 0
         THEN LET n == NameLen(Tail(s))
                  name == SubSeq(Tail(s), 1, n)
              IN (IF name \in DOMAIN env THEN env[name] ELSE <<>>)
                    \o Expand(SubSeq(Tail(s), n + 1, Len(s) - 1), env)
         ELSE <<Head(s)>> \o Expand(Tail(s), env)

\* field splitting: the words between blanks
Words(s) == SelectSeq(SplitOn(s, {" "}), LAMBDA w : w # <<>>)

\* sh -c cmd: the command line is cut into commands at the control operators
\* first; each command is then expanded and split into its argv
Sh(cmd, env) ==
    LET parts == SplitOn(cmd, ControlOperators)
    IN [n \in 1..Len(parts) |-> Words(Expand(parts[n], env))]

\* what the echo commands among the executed ones print, a line each
Output(executed) ==
    LET echos == SelectSeq(executed, LAMBDA argv : argv # <<>> /\ argv[1] = <<"echo">>)
    IN [n \in 1..Len(echos) |-> Tail(echos[n])]

\* the two invocations whose results are compared
Runs == 1..2

\* item.TimeoutSeconds as configured: negative, unset, set
TimeoutSettings == {-1, 0, 1}

\* seconds a started command may need before it exits by itself
Durations == {0, 1, 30, 31}

\* exit codes of the shell
ExitCodes == {0, 1, 2}

defaultTimeout == 30

\* the configured value used as it is
Timeout_NoDefault(seconds) == seconds

\* timeout := item.TimeoutSeconds; if timeout <= 0 { timeout = defaultTimeout }
Timeout(seconds) == IF seconds <= 0 THEN defaultTimeout ELSE seconds

\* Parse accepting any text
Parse_Lenient(cmd) == [ok |-> TRUE, nodes |-> cmd.nodes]

\* template.New("command").Parse(item.Command)
Parse(cmd) == [ok |-> cmd.wellFormed, nodes |-> IF cmd.wellFormed THEN cmd.nodes ELSE <<>>]

\* an exit code that is always 0
ExitCodeOf_Zero(waitErr, code) == 0

\* exitCode: 0 without error, ExitError.ExitCode(), -1 for any other error
ExitCodeOf(waitErr, code) ==
    CASE waitErr = "nil" -> 0
      [] waitErr = "ExitError" -> code
      [] OTHER -> -1

\* an invocation not started yet; proc is the subprocess, procCode the exit
\* code it ended with, captured the output CombinedOutput collected
NewRun(params) ==
    [params |-> params, pc |-> "called", finalCommand |-> <<>>, env |-> <<>>,
     timeout |-> 0, proc |-> "none", procCode |-> 0, executed |-> <<>>, captured |-> <<>>,
     duration |-> 0, output |-> <<>>, exitCode |-> 0, err |-> ""]

\* executeCommand up to exec.CommandContext: environment, template, command,
\* timeout
ExecuteCommandBuild(r) ==
    /\ runs[r].pc = "called"
    /\ LET envVars == EnvVars(runs[r].params)
           templateData == TemplateData(runs[r].params)
           tmpl == Parse(command)
           buf == Execute(tmpl.nodes, templateData)
       IN runs' = [runs EXCEPT ![r] =
            IF ~tmpl.ok
            THEN [@ EXCEPT !.pc = "returned", !.exitCode = -1,
                           !.err = "invalid command template in config"]
            ELSE IF ~buf.ok
            THEN [@ EXCEPT !.pc = "returned", !.exitCode = -1,
                           !.err = "failed to build command from template"]
            ELSE [@ EXCEPT !.pc = "started", !.finalCommand = buf.out, !.env = envVars,
                           !.timeout = Timeout(timeoutSeconds)]]
    /\ UNCHANGED <<storeVars, ret, calls, orchVars, raceVars, fsVars, command, timeoutSeconds>>

\* cmd.CombinedOutput() and the result executeCommand returns.  spawned: sh
\* could be started; need: seconds the command takes by itself; code: the
\* exit code it ends with; expired: the context's deadline passed first and
\* the process was killed
ExecuteCommandWait(r, spawned, need, code, expired) ==
    /\ runs[r].pc = "started"
    /\ need > runs[r].timeout => expired
    /\ need < runs[r].timeout => ~expired
    /\ ~spawned => (~expired /\ need = 0 /\ code = 0)
    /\ expired => code = 0
    /\ LET executed == IF spawned THEN Sh(runs[r].finalCommand, runs[r].env) ELSE <<>>
           output == Output(executed)
           waitErr == IF ~spawned THEN "error"
                      ELSE IF expired \/ code # 0 THEN "ExitError"
                      ELSE "nil"
           exitCode == ExitCodeOf(waitErr, IF expired THEN -1 ELSE code)
       IN runs' = [runs EXCEPT ![r] =
            [@ EXCEPT !.pc = "returned",
                      !.proc = IF ~spawned THEN "nospawn"
                               ELSE IF expired THEN "killed" ELSE "exited",
                      !.procCode = code,
                      !.executed = executed,
                      !.captured = output,
                      !.duration = IF expired THEN runs[r].timeout ELSE need,
                      !.output = IF expired THEN <<>> ELSE output,
                      !.exitCode = IF expired THEN -1 ELSE exitCode,
                      !.err = IF expired THEN "command timed out"
                              ELSE IF waitErr # "nil" THEN "command failed"
                              ELSE ""]]
    /\ UNCHANGED <<storeVars, ret, calls, orchVars, raceVars, fsVars, command, timeoutSeconds>>

\* cmd.CombinedOutput() after the deadline: the context killed sh, but a
\* process sh had started still holds the write end of the output pipe, and
\* Wait goes on waiting for the end of the output (no cmd.WaitDelay is set)
ExecuteCommandHang(r) ==
    /\ runs[r].pc = "started"
    /\ LET executed == Sh(runs[r].finalCommand, runs[r].env)
       IN runs' = [runs EXCEPT ![r] =
            [@ EXCEPT !.pc = "waiting",
                      !.proc = "killed",
                      !.executed = executed,
                      !.captured = Output(executed),
                      !.duration = runs[r].timeout]]
    /\ UNCHANGED <<storeVars, ret, calls, orchVars, raceVars, fsVars, command, timeoutSeconds>>

\* the process holding the pipe exits at last: CombinedOutput returns, later
\* than the deadline, and executeCommand reports the timeout
ExecuteCommandPipeClosed(r) ==
    /\ runs[r].pc = "waiting"
    /\ runs' = [runs EXCEPT ![r] =
          [@ EXCEPT !.pc = "returned", !.output = <<>>, !.exitCode = -1,
                    !.duration = runs[r].timeout + 1,
                    !.err = "command timed out"]]
    /\ UNCHANGED <<storeVars, ret, calls, orchVars, raceVars, fsVars, command, timeoutSeconds>>

----------------------------------------------------------------------------
(* The scratch space: resolvePath and the file operations                  *)
(*                                                                         *)
(* A path is a sequence of tokens: "/", "." and names (a name stands for   *)
(* characters other than "/" with no ".." in them and no "." at its ends). *)

MaxFileOps == 2     \* writing file operations in one run
MaxSymlinks == 2    \* symbolic links followed while resolving one path

\* tmpDir, the scratch space
ScratchRoot == <<"/", "scratch">>

\* paths given to the file tools
ArgPaths == {<<"/", "etc", "/", "passwd">>,
             <<".", ".", "/">>,
             <<"test", "/", ".", ".", "/", ".", ".", "/">>,
             <<".", ".", "/", "etc", "/", "passwd">>,
             <<"a", "/", "b">>,
             <<"link_to_secret">>,
             <<"link_to_outside", "/", "new">>,
             <<"subdir", "/", "link_to_outside", "/", "secret">>,
             <<"broken_link">>,
             <<"link_to_inner", "/", "target">>,
             <<".", ".", "hidden">>}

\* destinations given to copyResourceTree
DestPaths == {<<".">>, <<"out">>, <<".", ".", "/", "up">>}

\* resourceMap: URI -> content.  "a" and "a/f" collide as a file and a
\* directory of one name; "dx/f" shares the text "d" with a prefix
ResourceMap ==
    [u \in {<<"docs", "/", "a">>, <<"docs", "/", ".", ".", "/", "x">>,
            <<"a">>, <<"a", "/", "f">>, <<"d", "x", "/", "f">>} |->
        CASE u = <<"docs", "/", "a">> -> <<"A">>
          [] u = <<"docs", "/", ".", ".", "/", "x">> -> <<"X">>
          [] u = <<"a">> -> <<"contentA">>
          [] u = <<"a", "/", "f">> -> <<"content1">>
          [] OTHER -> <<"content">>]

ResourcePrefixes == {<<"docs">>, <<"none">>, <<"a">>, <<"a", "/">>, <<"d">>, <<"d", "x">>}

DirNode == [kind |-> "dir", data |-> <<>>]
FileNode(content) == [kind |-> "file", data |-> content]
LinkNode(target) == [kind |-> "link", data |-> target]

\* no filesystem in the runs that do not use one
NoFiles == <<>>
NoFileOp == [op |-> "", path |-> <<>>, isError |-> FALSE, text |-> <<>>,
             changed |-> FALSE]

\* a scratch space without symbolic links, next to a directory outside it
PlainFiles ==
    [l \in {<<"/">>, <<"/", "scratch">>, <<"/", "outside">>,
            <<"/", "outside", "/", "secret">>,
            <<"/", "scratch", "/", "inner">>,
            <<"/", "scratch", "/", "inner", "/", "target">>} |->
        CASE l = <<"/", "outside", "/", "secret">> -> FileNode(<<"sensitive info">>)
          [] l = <<"/", "scratch", "/", "inner", "/", "target">> -> FileNode(<<"internal content">>)
          [] OTHER -> DirNode]

\* the symbolic links of TestScratchSymlinkSecurity: name -> target
TestLinks ==
    [l \in {<<"/", "scratch", "/", "link_to_secret">>,
            <<"/", "scratch", "/", "link_to_outside">>,
            <<"/", "scratch", "/", "subdir", "/", "link_to_outside">>,
            <<"/", "scratch", "/", "broken_link">>,
            <<"/", "scratch", "/", "link_to_inner">>} |->
        CASE l = <<"/", "scratch", "/", "link_to_secret">> -> <<"/", "outside", "/", "secret">>
          [] l = <<"/", "scratch", "/", "broken_link">> -> <<"/", "outside", "/", "missing">>
          [] l = <<"/", "scratch", "/", "link_to_inner">> -> <<"/", "scratch", "/", "inner">>
          [] OTHER -> <<"/", "outside">>]

\* the same scratch space after the links were made in it
LinkedFiles ==
    [l \in DOMAIN PlainFiles \cup DOMAIN TestLinks \cup {<<"/", "scratch", "/", "subdir">>} |->
        IF l \in DOMAIN PlainFiles THEN PlainFiles[l]
        ELSE IF l \in DOMAIN TestLinks THEN LinkNode(TestLinks[l])
        ELSE DirNode]

\* filepath.IsAbs
IsAbs(path) == path # <<>> /\ Head(path) = "/"

\* strings.HasPrefix
HasPrefix(str, prefix) ==
    Len(str) >= Len(prefix) /\ SubSeq(str, 1, Len(prefix)) = prefix

\* strings.TrimPrefix
TrimPrefix(str, prefix) ==
    IF HasPrefix(str, prefix) THEN SubSeq(str, Len(prefix) + 1, Len(str)) ELSE str

\* strings.Contains(str, "..")
ContainsDotDot(str) == \E n \in 1..(Len(str) - 1) : str[n] = "." /\ str[n + 1] = "."

\* the non-empty elements of a path
Segments(path) == SelectSeq(SplitOn(path, {"/"}), LAMBDA g : g # <<>>)

RECURSIVE CleanSegs(_, _, _)
\* filepath.Clean, element by element: "." is dropped, ".." removes the
\* element before it, or stays at the start of a relative path
CleanSegs(segs, stack, rooted) ==
    IF segs = <<>>
    THEN stack
    ELSE IF Head(segs) = <<".">>
    THEN CleanSegs(Tail(segs), stack, rooted)
    ELSE IF Head(segs) # <<".", ".">>
    THEN CleanSegs(Tail(segs), Append(stack, Head(segs)), rooted)
    ELSE IF stack # <<>> /\ stack[Len(stack)] # <<".", ".">>
    THEN CleanSegs(Tail(segs), SubSeq(stack, 1, Len(stack) - 1), rooted)
    ELSE IF rooted
    THEN CleanSegs(Tail(segs), stack, rooted)
    ELSE CleanSegs(Tail(segs), Append(stack, Head(segs)), rooted)

RECURSIVE JoinSegs(_)
\* the elements with "/" between them
JoinSegs(segs) ==
    IF segs = <<>> THEN <<>>
    ELSE IF Len(segs) = 1 THEN segs[1]
    ELSE segs[1] \o <<"/">> \o JoinSegs(Tail(segs))

\* filepath.Clean
Clean(path) ==
    LET out == JoinSegs(CleanSegs(Segments(path), <<>>, IsAbs(path)))
    IN IF IsAbs(path) THEN <<"/">> \o out
       ELSE IF out = <<>> THEN <<".">> ELSE out

\* filepath.Join
Join(base, path) == Clean(base \o <<"/">> \o path)

\* filepath.Dir of a cleaned absolute path
Dir(path) ==
    LET segs == Segments(path)
    IN <<"/">> \o JoinSegs(SubSeq(segs, 1, Len(segs) - 1))

\* resolvePath without the test for absolute paths
resolvePath_NoAbsCheck(base, path) ==
    IF ContainsDotDot(Clean(path))
    THEN [err |-> "path must not contain '..'", path |-> <<>>]
    ELSE IF ~HasPrefix(Join(base, Clean(path)), base)
    THEN [err |-> "path escapes the scratch directory", path |-> <<>>]
    ELSE [err |-> "", path |-> Join(base, Clean(path))]

resolvePath(base, path) ==
    IF IsAbs(path)
    THEN [err |-> "absolute paths are not allowed", path |-> <<>>]
    ELSE IF ContainsDotDot(Clean(path))
    THEN [err |-> "path must not contain '..'", path |-> <<>>]
    ELSE IF ~HasPrefix(Join(base, Clean(path)), base)
    THEN [err |-> "path escapes the scratch directory", path |-> <<>>]
    ELSE [err |-> "", path |-> Join(base, Clean(path))]

\* the entry seg of directory cur
Child(cur, seg) == IF cur = <<"/">> THEN cur \o seg ELSE cur \o <<"/">> \o seg

RECURSIVE Walk(_, _, _, _)
\* the kernel's path lookup from directory cur: symbolic links are followed,
\* and the last element may be missing (the place a file would be created)
Walk(f, cur, segs, depth) ==
    IF segs = <<>>
    THEN [ok |-> TRUE, loc |-> cur]
    ELSE IF cur \notin DOMAIN f \/ f[cur].kind # "dir"
    THEN [ok |-> FALSE, loc |-> cur]
    ELSE IF Child(cur, Head(segs)) \notin DOMAIN f
    THEN [ok |-> Len(segs) = 1, loc |-> Child(cur, Head(segs))]
    ELSE IF f[Child(cur, Head(segs))].kind # "link"
    THEN Walk(f, Child(cur, Head(segs)), Tail(segs), depth)
    ELSE IF depth = 0
    THEN [ok |-> FALSE, loc |-> cur]
    ELSE LET target == Walk(f, <<"/">>, Segments(f[Child(cur, Head(segs))].data), depth - 1)
         IN IF target.ok
            THEN Walk(f, target.loc, Tail(segs), depth)
            ELSE [ok |-> FALSE, loc |-> cur]

\* where an absolute path leads
Real(f, path) == Walk(f, <<"/">>, Segments(path), MaxSymlinks)

\* where an absolute path leads when its last element is not followed
RealNoFollow(f, path) ==
    LET segs == Segments(path)
        parent == Walk(f, <<"/">>, SubSeq(segs, 1, Len(segs) - 1), MaxSymlinks)
    IN IF segs # <<>> /\ parent.ok /\ parent.loc \in DOMAIN f
       THEN [ok |-> TRUE, loc |-> Child(parent.loc, segs[Len(segs)])]
       ELSE [ok |-> FALSE, loc |-> <<"/">>]

\* f with node at loc
Put(f, loc, node) == [l \in DOMAIN f \cup {loc} |-> IF l = loc THEN node ELSE f[l]]

\* os.ReadFile
ReadFile(f, path) ==
    IF Real(f, path).ok /\ Real(f, path).loc \in DOMAIN f
          /\ f[Real(f, path).loc].kind = "file"
    THEN [ok |-> TRUE, data |-> f[Real(f, path).loc].data]
    ELSE [ok |-> FALSE, data |-> <<>>]

\* os.WriteFile: creates or truncates the file the path leads to
WriteFile(f, path, content) ==
    IF Real(f, path).ok
          /\ (Real(f, path).loc \in DOMAIN f => f[Real(f, path).loc].kind = "file")
    THEN [ok |-> TRUE, fs |-> Put(f, Real(f, path).loc, FileNode(content))]
    ELSE [ok |-> FALSE, fs |-> f]

RECURSIVE MkdirAllFrom(_, _, _)
\* os.MkdirAll below directory cur: missing directories are created
MkdirAllFrom(f, cur, segs) ==
    IF segs = <<>>
    THEN [ok |-> TRUE, fs |-> f]
    ELSE IF Child(cur, Head(segs)) \notin DOMAIN f
    THEN MkdirAllFrom(Put(f, Child(cur, Head(segs)), DirNode), Child(cur, Head(segs)), Tail(segs))
    ELSE IF f[Child(cur, Head(segs))].kind = "dir"
    THEN MkdirAllFrom(f, Child(cur, Head(segs)), Tail(segs))
    ELSE IF f[Child(cur, Head(segs))].kind = "file"
    THEN [ok |-> FALSE, fs |-> f]
    ELSE LET target == Walk(f, <<"/">>, Segments(f[Child(cur, Head(segs))].data), MaxSymlinks)
         IN IF target.ok /\ target.loc \in DOMAIN f /\ f[target.loc].kind = "dir"
            THEN MkdirAllFrom(f, target.loc, Tail(segs))
            ELSE [ok |-> FALSE, fs |-> f]

\* os.Remove: a file, a symbolic link itself, or an empty directory
Remove(f, path) ==
    LET at == RealNoFollow(f, path)
    IN IF /\ at.ok
          /\ at.loc \in DOMAIN f
          /\ \A l \in DOMAIN f : ~HasPrefix(l, at.loc \o <<"/">>)
       THEN [ok |-> TRUE, fs |-> [l \in DOMAIN f \ {at.loc} |-> f[l]]]
       ELSE [ok |-> FALSE, fs |-> f]

\* mcp.NewToolResultError / mcp.NewToolResultText, with the files afterwards
ToolResult(isError, text, f) == [isError |-> isError, text |-> text, fs |-> f]

createFile(f, tmpDir, path, content) ==
    LET resolved == resolvePath(tmpDir, path)
        made == MkdirAllFrom(f, <<"/">>, Segments(Dir(resolved.path)))
        written == WriteFile(made.fs, resolved.path, content)
    IN IF resolved.err # ""
       THEN ToolResult(TRUE, <<resolved.err>>, f)
       ELSE IF ~made.ok
       THEN ToolResult(TRUE, <<"failed to create parent directories">>, made.fs)
       ELSE IF ~written.ok
       THEN ToolResult(TRUE, <<"failed to create file">>, made.fs)
       ELSE ToolResult(FALSE, <<"File created successfully.">>, written.fs)

readFile(f, tmpDir, path) ==
    LET resolved == resolvePath(tmpDir, path)
    IN IF resolved.err # ""
       THEN ToolResult(TRUE, <<resolved.err>>, f)
       ELSE IF ~ReadFile(f, resolved.path).ok
       THEN ToolResult(TRUE, <<"failed to read file">>, f)
       ELSE ToolResult(FALSE, ReadFile(f, resolved.path).data, f)

deleteFile(f, tmpDir, path) ==
    LET resolved == resolvePath(tmpDir, path)
    IN IF resolved.err # ""
       THEN ToolResult(TRUE, <<resolved.err>>, f)
       ELSE IF ~Remove(f, resolved.path).ok
       THEN ToolResult(TRUE, <<"failed to delete file">>, f)
       ELSE ToolResult(FALSE, <<"File deleted successfully.">>, Remove(f, resolved.path).fs)

\* every URI that starts with the text of resourcePrefix
MatchedURIs_AnyPrefix(resourceMap, resourcePrefix) ==
    {uri \in DOMAIN resourceMap : HasPrefix(uri, resourcePrefix)}

\* the URIs copyResourceTree matches against resourcePrefix
MatchedURIs(resourceMap, resourcePrefix) ==
    {uri \in DOMAIN resourceMap :
        \/ uri = resourcePrefix
        \/ /\ HasPrefix(uri, resourcePrefix)
           /\ \/ HasPrefix(TrimPrefix(uri, resourcePrefix), <<"/">>)
              \/ resourcePrefix[Len(resourcePrefix)] = "/"}

RECURSIVE CopyLoop(_, _, _, _, _, _)
\* the loop of copyResourceTree over matchedURIs, in the order given
CopyLoop(f, resourceMap, tmpDir, resourcePrefix, destinationPath, uris) ==
    IF uris = <<>>
    THEN ToolResult(FALSE, <<"Successfully copied resources.">>, f)
    ELSE LET relPath == TrimPrefix(TrimPrefix(Head(uris), resourcePrefix), <<"/">>)
             targetPath == IF relPath # <<>> THEN Join(destinationPath, relPath)
                           ELSE destinationPath
             res == createFile(f, tmpDir, targetPath, resourceMap[Head(uris)])
         IN IF resourceMap[Head(uris)] = <<>>
            THEN ToolResult(TRUE, <<"resource has no content or command">>, f)
            ELSE IF res.isError
            THEN res
            ELSE CopyLoop(res.fs, resourceMap, tmpDir, resourcePrefix, destinationPath, Tail(uris))

\* copyResourceTree; order is the order the map iteration produced
copyResourceTree(f, resourceMap, tmpDir, resourcePrefix, destinationPath, order) ==
    IF MatchedURIs(resourceMap, resourcePrefix) = {}
    THEN ToolResult(TRUE, <<"no resources found matching prefix">>, f)
    ELSE CopyLoop(f, resourceMap, tmpDir, resourcePrefix, destinationPath, order)

\* a file tool was called: its result, and whether any file changed
FileOp(op, path, res) ==
    /\ fs' = res.fs
    /\ fret' = [op |-> op, path |-> path, isError |-> res.isError, text |-> res.text,
                changed |-> res.fs # fs]
    /\ UNCHANGED <<storeVars, ret, calls, orchVars, raceVars, execVars>>

CreateFileOp(path, content) ==
    /\ fileOps < MaxFileOps
    /\ fileOps' = fileOps + 1
    /\ FileOp("createFile", path, createFile(fs, ScratchRoot, path, content))

ReadFileOp(path) ==
    /\ fileOps' = fileOps
    /\ FileOp("readFile", path, readFile(fs, ScratchRoot, path))

DeleteFileOp(path) ==
    /\ fileOps < MaxFileOps
    /\ fileOps' = fileOps + 1
    /\ FileOp("deleteFile", path, deleteFile(fs, ScratchRoot, path))

CopyResourceTreeOp(resourcePrefix, destinationPath) ==
    /\ fileOps < MaxFileOps
    /\ fileOps' = fileOps + 1
    /\ \E order \in Orders(MatchedURIs(ResourceMap, resourcePrefix)) :
          FileOp("copyResourceTree", destinationPath,
                 copyResourceTree(fs, ResourceMap, ScratchRoot, resourcePrefix,
                                  destinationPath, order))

----------------------------------------------------------------------------
(* The registry lock and the accesses to one AsyncTask, field by field *)

\* sync.RWMutex: free
Unlocked == [writer |-> FALSE, readers |-> 0]

\* the goroutine of handleAsyncTask before it exists
NoWriter == [pc |-> "none", id |-> NoId, status |-> "", message |-> ""]

\* a request handler holding no *AsyncTask; the fields are what FormatStatus
\* has read so far
NoReader == [pc |-> "idle", ptr |-> NoId, branch |-> "", endTime |-> 0,
             status |-> "", message |-> ""]

\* the statements of FormatStatus that read a field SetStatus writes
FormatStatusReads == {"l115", "l116", "l124", "l126"}

\* the statements of SetStatus executed while it holds the write lock
SetStatusLocked == {"l76", "l77", "l78", "unlock"}

\* handleAsyncTask: Create, start the goroutine, then format the response
\* from the pointer Create returned
AsyncCreate(tool) ==
    /\ wr.pc = "none"
    /\ rd.pc = "idle"
    /\ ~mu.writer /\ mu.readers = 0
    /\ tasks' = Create(tasks, JobId(1), tool, now)
    /\ wr' = [NoWriter EXCEPT !.pc = "go", !.id = JobId(1)]
    /\ rd' = [NoReader EXCEPT !.pc = "l115", !.ptr = ToLower(JobId(1))]
    /\ UNCHANGED <<maxTasks, now, ret, calls, orchVars, mu, execVars, fsVars>>

\* the goroutine enters SetStatus: "running" first, the outcome second
SetStatusLock(status, message) ==
    /\ \/ wr.pc = "go" /\ status = "running" /\ message = RunningMsg
       \/ wr.pc = "exec" /\ status = "completed" /\ message = OutputMsg
       \/ wr.pc = "exec" /\ status = "failed" /\ message = ErrorMsg
    /\ ~mu.writer /\ mu.readers = 0
    /\ mu' = [mu EXCEPT !.writer = TRUE]
    /\ wr' = [wr EXCEPT !.status = status, !.message = message,
                        !.pc = IF ToLower(wr.id) \in DOMAIN tasks THEN "l76" ELSE "unlock"]
    /\ UNCHANGED <<storeVars, ret, calls, orchVars, rd, execVars, fsVars>>

\* task.Status = status
SetStatusWriteStatus ==
    /\ wr.pc = "l76"
    /\ tasks' = [tasks EXCEPT ![ToLower(wr.id)].Status = wr.status]
    /\ wr' = [wr EXCEPT !.pc = "l77"]
    /\ UNCHANGED <<maxTasks, now, ret, calls, orchVars, mu, rd, execVars, fsVars>>

\* task.Message = message
SetStatusWriteMessage ==
    /\ wr.pc = "l77"
    /\ tasks' = [tasks EXCEPT ![ToLower(wr.id)].Message = wr.message]
    /\ wr' = [wr EXCEPT !.pc = "l78"]
    /\ UNCHANGED <<maxTasks, now, ret, calls, orchVars, mu, rd, execVars, fsVars>>

\* if status is terminal: task.EndTime = time.Now()
SetStatusWriteEndTime ==
    /\ wr.pc = "l78"
    /\ tasks' = IF wr.status = "completed" \/ wr.status = "failed"
                THEN [tasks EXCEPT ![ToLower(wr.id)].EndTime = now]
                ELSE tasks
    /\ wr' = [wr EXCEPT !.pc = "unlock"]
    /\ UNCHANGED <<maxTasks, now, ret, calls, orchVars, mu, rd, execVars, fsVars>>

\* the deferred ts.mu.Unlock(); SetStatus returns to the goroutine
SetStatusUnlock ==
    /\ wr.pc = "unlock"
    /\ mu' = [mu EXCEPT !.writer = FALSE]
    /\ wr' = [wr EXCEPT !.pc = IF wr.status = "running" THEN "exec" ELSE "done"]
    /\ UNCHANGED <<storeVars, ret, calls, orchVars, rd, execVars, fsVars>>

\* the TaskStatus handler calls Get: RLock and the map lookup
GetRLock(id) ==
    /\ rd.pc = "idle"
    /\ wr.pc # "none"
    /\ ~mu.writer
    /\ mu' = [mu EXCEPT !.readers = @ + 1]
    /\ rd' = [NoReader EXCEPT !.pc = "runlock",
                              !.ptr = IF Get(tasks, id).ok THEN ToLower(id) ELSE NoId]
    /\ UNCHANGED <<storeVars, ret, calls, orchVars, wr, execVars, fsVars>>

\* the deferred ts.mu.RUnlock(); Get returns the pointer, or not-found
GetRUnlock ==
    /\ rd.pc = "runlock"
    /\ mu' = [mu EXCEPT !.readers = @ - 1]
    /\ rd' = [rd EXCEPT !.pc = IF rd.ptr = NoId THEN "sent" ELSE "l115"]
    /\ UNCHANGED <<storeVars, ret, calls, orchVars, wr, execVars, fsVars>>

\* FormatStatus: if t.Status == "completed" || t.Status == "failed"
FormatStatusReadBranch ==
    /\ rd.pc = "l115"
    /\ rd' = [rd EXCEPT !.branch = tasks[rd.ptr].Status,
                        !.pc = IF IsTerminal(tasks[rd.ptr].Status) THEN "l116" ELSE "l124"]
    /\ UNCHANGED <<storeVars, ret, calls, orchVars, mu, wr, execVars, fsVars>>

\* FormatStatus: t.EndTime, read on the terminal branch only
FormatStatusReadEndTime ==
    /\ rd.pc = "l116"
    /\ rd' = [rd EXCEPT !.endTime = tasks[rd.ptr].EndTime, !.pc = "l124"]
    /\ UNCHANGED <<storeVars, ret, calls, orchVars, mu, wr, execVars, fsVars>>

\* FormatStatus: switch t.Status, and the t.Status argument of Sprintf
FormatStatusReadStatus ==
    /\ rd.pc = "l124"
    /\ rd' = [rd EXCEPT !.status = tasks[rd.ptr].Status, !.pc = "l126"]
    /\ UNCHANGED <<storeVars, ret, calls, orchVars, mu, wr, execVars, fsVars>>

\* FormatStatus: the t.Message argument of Sprintf; the text is sent
FormatStatusReadMessage ==
    /\ rd.pc = "l126"
    /\ rd' = [rd EXCEPT !.message = tasks[rd.ptr].Message, !.pc = "sent"]
    /\ UNCHANGED <<storeVars, ret, calls, orchVars, mu, wr, execVars, fsVars>>

\* the handler returns; the next request can come
HandlerReturn ==
    /\ rd.pc = "sent"
    /\ rd' = NoReader
    /\ UNCHANGED <<storeVars, ret, calls, orchVars, mu, wr, execVars, fsVars>>

----------------------------------------------------------------------------
(* Specifications *)

InitOrch ==
    /\ hpc = [h \in 1..NumHandlers |-> "idle"]
    /\ htool = [h \in 1..NumHandlers |-> ""]
    /\ hjob = [h \in 1..NumHandlers |-> NoId]
    /\ hslot = [h \in 1..NumHandlers |-> NoId]
    /\ hresp = [h \in 1..NumHandlers |-> ""]
    /\ gpc = [j \in 1..MaxJobs |-> "none"]
    /\ nextJob = 0
    /\ hostAlive = TRUE

InitStore ==
    /\ tasks = NewTaskStore
    /\ maxTasks = MaxTasks
    /\ now = 1
    /\ ret = NoCall
    /\ calls = 0
    /\ InitOrch
    /\ mu = Unlocked /\ wr = NoWriter /\ rd = NoReader
    /\ command = NoCommand /\ timeoutSeconds = 0 /\ runs = <<>>
    /\ fs = NoFiles /\ fret = NoFileOp /\ fileOps = 0

NextStore ==
    \/ Tick
    \/ CreateOp
    \/ GetOp
    \/ SetStatusOp
    \/ ListActiveTasksOp
    \/ HasActiveTaskOp
    \/ DeleteOp
    \/ PrepareSlotOp

SpecStore == InitStore /\ [][NextStore]_vars

\* the registry written by its clients and queried through the TaskStatus tool
NextStatus ==
    \/ Tick
    \/ CreateOp
    \/ SetStatusOp
    \/ TaskStatusOp

SpecStatus == InitStore /\ [][NextStatus]_vars

\* the server of main.go: NewTaskStore() without a capacity
Init ==
    /\ tasks = NewTaskStore
    /\ maxTasks = 0
    /\ now = 1
    /\ ret = NoCall
    /\ calls = 0
    /\ InitOrch
    /\ mu = Unlocked /\ wr = NoWriter /\ rd = NoReader
    /\ command = NoCommand /\ timeoutSeconds = 0 /\ runs = <<>>
    /\ fs = NoFiles /\ fret = NoFileOp /\ fileOps = 0

Goroutine(j) == GStart(j) \/ GFinish(j) \/ GExit(j) \/ GPanic(j)

Next ==
    \/ Tick
    \/ \E h \in Handlers, arguments \in RequestArguments : HHandler(h, arguments)
    \/ \E h \in Handlers : HCheckActive(h)
    \/ \E h \in Handlers : HCreate(h)
    \/ \E h \in Handlers : HRespond(h)
    \/ \E j \in Jobs : GStart(j)
    \/ \E j \in Jobs : GFinish(j)
    \/ \E j \in Jobs : GExit(j)
    \/ \E j \in Jobs : GPanic(j)
    \/ \E j \in Jobs : GBlock(j)

Spec == Init /\ [][Next]_vars

\* every started goroutine is scheduled again and again
SpecLive == Spec /\ \A j \in Jobs : WF_vars(Goroutine(j))

\* the server with a bounded registry
InitCap ==
    /\ tasks = NewTaskStore
    /\ maxTasks \in 1..MaxTasks
    /\ now = 1
    /\ ret = NoCall
    /\ calls = 0
    /\ InitOrch
    /\ mu = Unlocked /\ wr = NoWriter /\ rd = NoReader
    /\ command = NoCommand /\ timeoutSeconds = 0 /\ runs = <<>>
    /\ fs = NoFiles /\ fret = NoFileOp /\ fileOps = 0

NextCap ==
    \/ Tick
    \/ \E h \in Handlers : HInvokeBounded(h)
    \/ \E h \in Handlers : HPrepareSlot(h)
    \/ \E h \in Handlers : HEvict(h)
    \/ \E h \in Handlers : HCheckActive(h)
    \/ \E h \in Handlers : HCreate(h)
    \/ \E h \in Handlers : HRespond(h)
    \/ \E j \in Jobs : GStart(j)
    \/ \E j \in Jobs : GFinish(j)
    \/ \E j \in Jobs : GExit(j)
    \/ \E j \in Jobs : GPanic(j)
    \/ \E j \in Jobs : GBlock(j)

SpecCap == InitCap /\ [][NextCap]_vars

\* one async job, its goroutine and the handlers formatting its status
InitRace ==
    /\ tasks = NewTaskStore
    /\ maxTasks = 0
    /\ now = 1
    /\ ret = NoCall
    /\ calls = 0
    /\ InitOrch
    /\ mu = Unlocked /\ wr = NoWriter /\ rd = NoReader
    /\ command = NoCommand /\ timeoutSeconds = 0 /\ runs = <<>>
    /\ fs = NoFiles /\ fret = NoFileOp /\ fileOps = 0

NextRace ==
    \/ Tick
    \/ \E tool \in Tools : AsyncCreate(tool)
    \/ \E status \in Statuses, message \in {RunningMsg, OutputMsg, ErrorMsg} :
          SetStatusLock(status, message)
    \/ SetStatusWriteStatus
    \/ SetStatusWriteMessage
    \/ SetStatusWriteEndTime
    \/ SetStatusUnlock
    \/ \E id \in {JobId(1), JobId(2)} : GetRLock(id)
    \/ GetRUnlock
    \/ FormatStatusReadBranch
    \/ FormatStatusReadEndTime
    \/ FormatStatusReadStatus
    \/ FormatStatusReadMessage
    \/ HandlerReturn

SpecRace == InitRace /\ [][NextRace]_vars

\* executeCommand called twice on one template
InitExec ==
    /\ tasks = NewTaskStore
    /\ maxTasks = 0
    /\ now = 1
    /\ ret = NoCall
    /\ calls = 0
    /\ InitOrch
    /\ mu = Unlocked /\ wr = NoWriter /\ rd = NoReader
    /\ command \in Commands
    /\ timeoutSeconds \in TimeoutSettings
    /\ runs \in [Runs -> {NewRun(p) : p \in ParamSets}]
    /\ fs = NoFiles /\ fret = NoFileOp /\ fileOps = 0

NextExec ==
    \/ \E r \in Runs : ExecuteCommandBuild(r)
    \/ \E r \in Runs, spawned \in BOOLEAN, need \in Durations,
          code \in ExitCodes, expired \in BOOLEAN :
          ExecuteCommandWait(r, spawned, need, code, expired)

SpecExec == InitExec /\ [][NextExec]_vars

\* executeCommand with commands that may leave processes behind: the
\* goroutine calling it is scheduled and the operating system ends or kills
\* sh, but nothing obliges a process left behind to exit
SpecWait ==
    /\ InitExec
    /\ [][\/ NextExec
          \/ \E r \in Runs : ExecuteCommandHang(r)
          \/ \E r \in Runs : ExecuteCommandPipeClosed(r)]_vars
    /\ \A r \in Runs :
          /\ WF_vars(ExecuteCommandBuild(r))
          /\ WF_vars(\E spawned \in BOOLEAN, need \in Durations,
                        code \in ExitCodes, expired \in BOOLEAN :
                        ExecuteCommandWait(r, spawned, need, code, expired))

\* the file tools working on a scratch space, with or without symbolic links
InitFiles ==
    /\ tasks = NewTaskStore
    /\ maxTasks = 0
    /\ now = 1
    /\ ret = NoCall
    /\ calls = 0
    /\ InitOrch
    /\ mu = Unlocked /\ wr = NoWriter /\ rd = NoReader
    /\ command = NoCommand /\ timeoutSeconds = 0 /\ runs = <<>>
    /\ fs \in {PlainFiles, LinkedFiles}
    /\ fret = NoFileOp
    /\ fileOps = 0

NextFiles ==
    \/ \E path \in ArgPaths : CreateFileOp(path, <<"pwned">>)
    \/ \E path \in ArgPaths : ReadFileOp(path)
    \/ \E path \in ArgPaths : DeleteFileOp(path)
    \/ \E resourcePrefix \in ResourcePrefixes, destinationPath \in DestPaths :
          CopyResourceTreeOp(resourcePrefix, destinationPath)

SpecFiles == InitFiles /\ [][NextFiles]_vars

----------------------------------------------------------------------------
(* Properties *)

\* C1: under every interleaving of async invocations and job completions the
\* registry never holds two records of one job type that are both pending or
\* running.
C1_OneActivePerType ==
    \A tool \in Tools :
        Cardinality({k \in DOMAIN tasks :
                        tasks[k].ToolName = tool /\ IsActive(tasks[k].Status)}) <= 1

\* C2: after any sequence of Create, SetStatus and Delete, HasActiveTask(T)
\* is true iff some record of type T is pending or running: true right after
\* a Create of type T, false when every record of type T is completed or failed.
C2_HasActiveTaskIff ==
    /\ \A tool \in Tools :
          HasActiveTask(tasks, tool) <=>
             Cardinality({k \in DOMAIN tasks :
                            /\ tasks[k].ToolName = tool
                            /\ tasks[k].Status \in {"pending", "running"}}) >= 1
    /\ ret.op = "HasActiveTask" =>
          (ret.ok <=> \E k \in DOMAIN tasks :
                        /\ tasks[k].ToolName = ret.tool
                        /\ tasks[k].Status \in {"pending", "running"})
    /\ ret.op = "Create" => HasActiveTask(tasks, ret.tool)
    /\ \A tool \in Tools :
          (\A k \in DOMAIN tasks :
              tasks[k].ToolName = tool => tasks[k].Status \in {"completed", "failed"})
          => ~HasActiveTask(tasks, tool)

\* a HasActiveTask call answered false for a type whose only job has finished
C2_Witness ==
    /\ ret.op = "HasActiveTask"
    /\ ~ret.ok
    /\ \E k \in DOMAIN tasks : tasks[k].ToolName = ret.tool /\ IsTerminal(tasks[k].Status)
    /\ \E k \in DOMAIN tasks : tasks[k].ToolName # ret.tool /\ tasks[k].Status = "pending"

\* C3: ListActiveTasks returns exactly the records that are pending or
\* running at the moment of the call, each exactly once; when every created
\* record has been set to running it has as many entries as there are records.
C3_ListActiveExact ==
    ret.op = "ListActiveTasks" =>
        /\ \A k \in DOMAIN tasks :
              tasks[k].Status \in {"pending", "running"} =>
                 Cardinality({n \in 1..Len(ret.list) : ret.list[n] = tasks[k]}) = 1
        /\ \A n \in 1..Len(ret.list) :
              \E k \in DOMAIN tasks :
                 ret.list[n] = tasks[k] /\ tasks[k].Status \in {"pending", "running"}
        /\ (\A k \in DOMAIN tasks : tasks[k].Status = "running")
              => Len(ret.list) = Cardinality(DOMAIN tasks)

\* a listing of two active records while a third record is finished
C3_Witness ==
    /\ ret.op = "ListActiveTasks"
    /\ Len(ret.list) = 2
    /\ \E n \in 1..2 : ret.list[n].Status = "pending"
    /\ \E k \in DOMAIN tasks : IsTerminal(tasks[k].Status)

\* C4: for every id passed to Create and not deleted since, Get(id),
\* Get(lowercase(id)) and Get(uppercase(id)) all succeed and return the same
\* record; Get of an id that matches no record in any casing is not-found.
C4_GetAnyCase ==
    /\ \A k \in DOMAIN tasks :
          /\ Get(tasks, tasks[k].ID) = [task |-> tasks[k], ok |-> TRUE]
          /\ Get(tasks, ToLower(tasks[k].ID)) = Get(tasks, tasks[k].ID)
          /\ Get(tasks, ToUpper(tasks[k].ID)) = Get(tasks, tasks[k].ID)
    /\ \A id \in Ids :
          (\A k \in DOMAIN tasks :
              /\ ToLower(tasks[k].ID) # ToLower(id)
              /\ ToUpper(tasks[k].ID) # ToUpper(id))
          => ~Get(tasks, id).ok

\* C5: a record's status only moves forward along pending -> running ->
\* {completed, failed}: never from running back to pending, and a completed
\* or failed record never changes status again.
C5_StatusForward ==
    [][\A k \in DOMAIN tasks :
          k \in DOMAIN tasks' =>
             LET Rank(st) == IF st = "pending" THEN 0 ELSE IF st = "running" THEN 1 ELSE 2
             IN /\ Rank(tasks'[k].Status) >= Rank(tasks[k].Status)
                /\ ~(tasks[k].Status = "running" /\ tasks'[k].Status = "pending")
                /\ tasks[k].Status \in {"completed", "failed"}
                      => tasks'[k].Status = tasks[k].Status]_vars

\* one job completed and its goroutine returned, another failed by a panic
C5_Witness ==
    /\ \E j \in Jobs :
          /\ gpc[j] = "done"
          /\ Get(tasks, JobId(j)).ok
          /\ Get(tasks, JobId(j)).task.Status = "completed"
    /\ \E k \in DOMAIN tasks : tasks[k].Status = "failed" /\ tasks[k].Message = PanicMsg

\* C6: every admitted async job eventually reaches completed or failed.
C6_EventuallyTerminal ==
    \A j \in Jobs :
        (gpc[j] # "none") ~>
            (Get(tasks, JobId(j)).ok /\ IsTerminal(Get(tasks, JobId(j)).task.Status))

\* C7: a panic in one job's goroutine is caught at its boundary: the host
\* keeps running, that job's record becomes failed with the panic message,
\* and all other records are unchanged.
C7_PanicContained ==
    /\ []hostAlive
    /\ [][\A j \in Jobs :
            (gpc[j] = "exec" /\ gpc'[j] = "done") =>
               /\ hostAlive'
               /\ DOMAIN tasks' = DOMAIN tasks
               /\ ToLower(JobId(j)) \in DOMAIN tasks'
               /\ tasks'[ToLower(JobId(j))].Status = "failed"
               /\ tasks'[ToLower(JobId(j))].Message = PanicMsg
               /\ \A k \in DOMAIN tasks \ {ToLower(JobId(j))} : tasks'[k] = tasks[k]]_vars

\* a job failed by a panic while another job's record exists, and a request
\* received afterwards was served
C7_Witness ==
    /\ hostAlive
    /\ \E j \in Jobs, o \in Jobs :
          /\ j # o
          /\ gpc[j] = "done"
          /\ Get(tasks, JobId(j)).task.Message = PanicMsg
          /\ Get(tasks, JobId(o)).ok
          /\ Get(tasks, JobId(o)).task.StartTime > Get(tasks, JobId(j)).task.EndTime
    /\ \E h \in Handlers : hresp[h] = "accepted"

C9_EvictableIsTerminal ==
    (ret.op = "PrepareSlot" /\ ret.id # NoId) =>
        /\ Get(tasks, ret.id).ok
        /\ Get(tasks, ret.id).task.Status \in {"completed", "failed"}

\* PrepareSlot named a record to evict while another record is in flight
C9_Witness ==
    /\ ret.op = "PrepareSlot"
    /\ ret.id # NoId
    /\ \E k \in DOMAIN tasks : IsActive(tasks[k].Status)

\* C10: at capacity with at least one completed or failed record, PrepareSlot
\* succeeds and returns a completed/failed record whose end_time is the
\* earliest among all completed/failed records.
C10_EvictsOldest ==
    (/\ ret.op = "PrepareSlot"
     /\ Cardinality(DOMAIN tasks) >= maxTasks
     /\ \E k \in DOMAIN tasks : tasks[k].Status \in {"completed", "failed"}) =>
        /\ ~ret.err
        /\ ret.id # NoId
        /\ Get(tasks, ret.id).ok
        /\ Get(tasks, ret.id).task.Status \in {"completed", "failed"}
        /\ \A k \in DOMAIN tasks :
              tasks[k].Status \in {"completed", "failed"} =>
                 Get(tasks, ret.id).task.EndTime <= tasks[k].EndTime

\* PrepareSlot returned the earlier of two finished records
C10_Witness ==
    /\ ret.op = "PrepareSlot"
    /\ ret.id # NoId
    /\ Cardinality(DOMAIN tasks) >= maxTasks
    /\ \E k \in DOMAIN tasks :
          /\ IsTerminal(tasks[k].Status)
          /\ tasks[k].EndTime > Get(tasks, ret.id).task.EndTime

\* C11: at capacity with every record pending or running, PrepareSlot fails
\* with the capacity error, returns no evictable id, and no record is removed
\* or modified.
C11_FullOfActiveFails ==
    /\ [](( /\ ret.op = "PrepareSlot"
            /\ Cardinality(DOMAIN tasks) >= maxTasks
            /\ \A k \in DOMAIN tasks : tasks[k].Status \in {"pending", "running"})
          => (ret.err /\ ret.id = NoId))
    /\ [][(ret'.op = "PrepareSlot" /\ calls' = calls) => tasks' = tasks]_vars

\* PrepareSlot failed on a registry holding maxTasks active records
C11_Witness ==
    /\ ret.op = "PrepareSlot"
    /\ ret.err
    /\ Cardinality(DOMAIN tasks) = maxTasks
    /\ \E k \in DOMAIN tasks : tasks[k].Status = "running"

\* C12: below capacity PrepareSlot returns no evictable id and no error and
\* leaves the registry unchanged, even if completed or failed records exist.
C12_BelowCapacityNoOp ==
    /\ []((ret.op = "PrepareSlot" /\ Cardinality(DOMAIN tasks) < maxTasks)
          => (~ret.err /\ ret.id = NoId))
    /\ [][(ret'.op = "PrepareSlot" /\ calls' = calls) => tasks' = tasks]_vars

\* PrepareSlot named nothing although a finished record exists
C12_Witness ==
    /\ ret.op = "PrepareSlot"
    /\ ret.id = NoId
    /\ ~ret.err
    /\ Cardinality(DOMAIN tasks) < maxTasks
    /\ \E k \in DOMAIN tasks : IsTerminal(tasks[k].Status)

\* C13: Delete(id) removes exactly the record stored under that identifier:
\* afterwards Get(id) is not-found, the record no longer counts towards the
\* capacity, ListActiveTasks or HasActiveTask, and every other record is
\* unchanged.
C13_DeleteExact ==
    [][(ret'.op = "Delete" /\ calls' = calls + 1) =>
          /\ ~Get(tasks', ret'.id).ok
          /\ DOMAIN tasks' = DOMAIN tasks \ {ToLower(ret'.id)}
          /\ \A k \in DOMAIN tasks' : tasks'[k] = tasks[k]
          /\ Cardinality(DOMAIN tasks') =
                Cardinality(DOMAIN tasks) - (IF Get(tasks, ret'.id).ok THEN 1 ELSE 0)
          /\ \A l \in ListActiveTasks(tasks') :
                \A n \in 1..Len(l) : ToLower(l[n].ID) # ToLower(ret'.id)
          /\ \A tool \in Tools :
                HasActiveTask(tasks', tool) <=>
                   \E k \in DOMAIN tasks :
                      /\ k # ToLower(ret'.id)
                      /\ tasks[k].ToolName = tool
                      /\ tasks[k].Status \in {"pending", "running"}]_vars

\* Delete, given another casing of the id, removed a record and left another
C13_Witness ==
    /\ ret.op = "Delete"
    /\ ret.ok
    /\ ret.id = <<"I">>
    /\ ~Get(tasks, ret.id).ok
    /\ DOMAIN tasks # {}

\* C14: SetStatus and Delete with an id that matches no record leave every
\* record unchanged; SetStatus on an unknown id does not create a record.
C14_UnknownIdNoOp ==
    [][( /\ ret'.op \in {"SetStatus", "Delete"}
         /\ calls' = calls + 1
         /\ \A k \in DOMAIN tasks : ToLower(tasks[k].ID) # ToLower(ret'.id))
       => tasks' = tasks]_vars

\* SetStatus was called with an unknown id while other records exist
C14_Witness ==
    /\ ret.op = "SetStatus"
    /\ ~ret.ok
    /\ ret.status = "completed"
    /\ ~Get(tasks, ret.id).ok
    /\ DOMAIN tasks # {}

\* C15: in every reachable state a record's end_time is unset while it is
\* pending or running and set once it is completed or failed: Create leaves
\* it unset and a status write sets it exactly when the new status is
\* completed or failed.
C15_EndTimeIffTerminal ==
    /\ [](\A k \in DOMAIN tasks :
            /\ tasks[k].Status \in {"pending", "running"} => tasks[k].EndTime = 0
            /\ tasks[k].Status \in {"completed", "failed"} => tasks[k].EndTime > 0)
    /\ [][\A k \in DOMAIN tasks' :
            IF k \notin DOMAIN tasks
            THEN tasks'[k].EndTime = 0
            ELSE IF tasks'[k].Status # tasks[k].Status
                    /\ tasks'[k].Status \in {"completed", "failed"}
                 THEN tasks'[k].EndTime = now
                 ELSE tasks'[k].EndTime = tasks[k].EndTime]_vars

\* one record still running without end_time, another failed with one
C15_Witness ==
    /\ \E k \in DOMAIN tasks : tasks[k].Status = "running" /\ tasks[k].EndTime = 0
    /\ \E k \in DOMAIN tasks : tasks[k].Status = "failed" /\ tasks[k].EndTime = now

\* C16: Create stores a pending record of the given job type and replaces a
\* record with the same identifier in any letter casing, so the registry
\* holds exactly one record per case-insensitive identifier.
C16_OneRecordPerId ==
    /\ ret.op = "Create" =>
          /\ Get(tasks, ret.id).ok
          /\ Get(tasks, ret.id).task.ID = ret.id
          /\ Get(tasks, ret.id).task.Status = "pending"
          /\ Get(tasks, ret.id).task.ToolName = ret.tool
    /\ \A k \in DOMAIN tasks, o \in DOMAIN tasks :
          k # o => tasks[o].ID \notin {tasks[k].ID, ToLower(tasks[k].ID), ToUpper(tasks[k].ID)}

\* C17: every read and write of job-record data is mediated by the registry's
\* reader/writer lock: no request handler reads a record's status, message
\* or timestamps while the job's goroutine is inside SetStatus writing them,
\* so every status text a handler sends shows the record as it was at one
\* moment.
C17_ReadsMediated ==
    /\ rd.pc \in FormatStatusReads =>
          ~(mu.writer /\ wr.pc \in SetStatusLocked /\ ToLower(wr.id) = rd.ptr)
    /\ (rd.pc = "sent" /\ rd.ptr # NoId) =>
          \/ rd.status = "pending" /\ rd.message = QueuedMsg /\ rd.branch = "pending"
          \/ rd.status = "running" /\ rd.message = RunningMsg /\ rd.branch = "running"
          \/ rd.status = "completed" /\ rd.message = OutputMsg
                /\ rd.branch = "completed" /\ rd.endTime > 0
          \/ rd.status = "failed" /\ rd.message = ErrorMsg
                /\ rd.branch = "failed" /\ rd.endTime > 0

\* C18: the command string produced by materialization depends only on the
\* template and on the parameter names, never on the values: two invocations
\* with the same names get the identical command, every value is handed over
\* in the environment, and a value holding '; touch F' or '&& touch F' does
\* not change which commands the shell runs.
C18_CommandIgnoresValues ==
    \A r \in Runs, q \in Runs :
       /\ runs[r].pc = "started" =>
             \A k \in DOMAIN runs[r].params :
                runs[r].env[EnvVarName(k)] = runs[r].params[k]
       /\ ( /\ DOMAIN runs[r].params = DOMAIN runs[q].params
            /\ runs[r].pc = "started" /\ runs[q].pc = "started")
          => /\ runs[r].finalCommand = runs[q].finalCommand
             /\ Len(Sh(runs[r].finalCommand, runs[r].env)) =
                   Len(Sh(runs[q].finalCommand, runs[q].env))
             /\ \A n \in 1..Len(Sh(runs[r].finalCommand, runs[r].env)) :
                   Sh(runs[r].finalCommand, runs[r].env)[n] # <<>> =>
                      /\ Sh(runs[q].finalCommand, runs[q].env)[n] # <<>>
                      /\ Sh(runs[r].finalCommand, runs[r].env)[n][1] =
                            Sh(runs[q].finalCommand, runs[q].env)[n][1]

\* the same template run on a harmless value and on one holding '; touch F'
C18_Witness ==
    /\ command = EchoText
    /\ runs[1].pc = "returned" /\ runs[2].pc = "returned"
    /\ runs[1].err = "" /\ runs[2].err = ""
    /\ runs[1].params = [k \in {TextName} |-> <<"dummy">>]
    /\ runs[2].params = [k \in {TextName} |-> <<"dummy", ";", " ", "touch", " ", "F">>]
    /\ runs[1].finalCommand = runs[2].finalCommand
    /\ runs[2].executed = <<<<<<"echo">>, <<"dummy", ";">>, <<"touch">>, <<"F">>>>>>

\* C19: a parameter whose name contains shell metacharacters is still bound
\* safely: the reference substituted for it is a single shell variable
\* reference that expands to the value, the command outputs the value, and
\* no command embedded in the name is executed.
C19_MetacharNameBound ==
    \A r \in Runs : \A k \in DOMAIN runs[r].params :
       command.nodes = <<TextNode(<<"echo", " ">>), FieldNode(k)>> =>
          /\ runs[r].pc = "started" =>
                Sh(TemplateData(runs[r].params)[k], runs[r].env) =
                   <<Words(runs[r].params[k])>>
          /\ (runs[r].pc = "returned" /\ runs[r].err = "") =>
                /\ runs[r].output = <<Words(runs[r].params[k])>>
                /\ \A n \in 1..Len(runs[r].executed) :
                      runs[r].executed[n] = <<>> \/ runs[r].executed[n][1] = <<"echo">>

\* C20: if the template references a name that is not in the bound
\* parameter set, materialization fails with a rendering error and no
\* subprocess is started; the reference never renders as the empty string.
C20_UnboundNameFails ==
    \A r \in Runs :
       ( /\ runs[r].pc # "called"
         /\ command.wellFormed
         /\ \E n \in 1..Len(command.nodes) :
               /\ command.nodes[n].kind = "field"
               /\ command.nodes[n].s \notin DOMAIN runs[r].params)
       => /\ runs[r].pc = "returned"
          /\ runs[r].err = "failed to build command from template"
          /\ runs[r].executed = <<>>

\* C21: a malformed command template makes executeCommand return at once
\* with the 'invalid command template' configuration error and exit code -1,
\* an error distinct from 'timed out' and 'command failed', and no
\* subprocess is started.
C21_MalformedTemplateRejected ==
    \A r \in Runs :
       (~command.wellFormed /\ runs[r].pc # "called") =>
          /\ runs[r].pc = "returned"
          /\ runs[r].err = "invalid command template in config"
          /\ runs[r].err \notin {"command timed out", "command failed"}
          /\ runs[r].exitCode = -1
          /\ runs[r].proc = "none"
          /\ runs[r].executed = <<>>
          /\ runs[r].output = <<>>

\* both invocations of the unclosed template were rejected
C21_Witness ==
    /\ command = Unclosed
    /\ \A r \in Runs :
          /\ runs[r].pc = "returned"
          /\ runs[r].err = "invalid command template in config"
    /\ runs[1].params # <<>>

C23_OutputKeptOnError ==
    \A r \in Runs :
       (runs[r].pc = "returned" /\ runs[r].proc # "none" /\ runs[r].err # "") =>
          runs[r].output = runs[r].captured

C29_RejectionHasNoEffect ==
    [][\A h \in Handlers :
          (hpc[h] = "check" /\ HasActiveTask(tasks, htool[h]) /\ hpc'[h] # "check") =>
             /\ tasks' = tasks
             /\ gpc' = gpc
             /\ nextJob' = nextJob
             /\ hjob' = hjob
             /\ hresp'[h] = "already in progress"
             /\ hpc'[h] = "idle"
             /\ htool'[h] = ""]_vars

\* a second invocation was rejected while the first job is still active and
\* is the only record
C29_Witness ==
    \E h \in Handlers :
       /\ hpc[h] = "idle"
       /\ hresp[h] = "already in progress"
       /\ nextJob = 1
       /\ DOMAIN tasks = {JobId(1)}
       /\ tasks[JobId(1)].Status = "running"
       /\ gpc[1] = "exec"

\* C30: the TaskStatus tool returns the snapshot of the same record whether
\* it is given the bare identifier or the URI 'simple-mcp://tasks/<id>', in
\* any letter casing of the id part, for the identifiers an async invocation
\* returns (generated ids, which are ASCII): the prefix is stripped before
\* the registry lookup.
C30_StatusByIdOrUri ==
    /\ [](\A k \in DOMAIN tasks :
            (\A n \in 1..Len(tasks[k].ID) : tasks[k].ID[n] \in {"i", "I", "1"}) =>
               \A id \in {tasks[k].ID, ToLower(tasks[k].ID), ToUpper(tasks[k].ID)} :
                  /\ TaskStatus(tasks, id, now) =
                        [found |-> TRUE, text |-> <<FormatStatus(tasks[k], now)>>]
                  /\ TaskStatus(tasks, <<TaskURIPrefix>> \o id, now) =
                        TaskStatus(tasks, id, now))
    /\ [][(ret'.op = "TaskStatus" /\ tasks' = tasks /\ now' = now) =>
             /\ ret'.ok = TaskStatus(tasks, ret'.id, now).found
             /\ ret'.list = TaskStatus(tasks, ret'.id, now).text]_vars

\* the URI with an upper-case id returned the snapshot of the record "i"
C30_Witness ==
    /\ ret.op = "TaskStatus"
    /\ ret.id = <<TaskURIPrefix, "I">>
    /\ ret.ok
    /\ <<"i">> \in DOMAIN tasks
    /\ tasks[<<"i">>].ID = <<"i">>
    /\ ret.list = <<FormatStatus(tasks[<<"i">>], now)>>
    /\ tasks[<<"i">>].Status = "completed"


\* C25: resolvePath(root, p) fails for every absolute p and for every p whose
\* cleaned form has a parent-directory element; when it succeeds the returned
\* path is root joined with the cleaned p and lies under root. Each single-file
\* tool reports the failure of resolvePath as its error result.
C25_ResolvePathContract ==
    fret.op \in {"createFile", "readFile", "deleteFile"} =>
       LET resolved == resolvePath(ScratchRoot, fret.path)
           cleaned == Segments(Clean(fret.path))
       IN /\ (IsAbs(fret.path) \/ \E n \in 1..Len(cleaned) : cleaned[n] = <<".", ".">>) =>
                (resolved.err # "" /\ fret.isError /\ fret.text = <<resolved.err>>)
          /\ resolved.err = "" =>
                /\ resolved.path = Join(ScratchRoot, Clean(fret.path))
                /\ \/ resolved.path = ScratchRoot
                   \/ HasPrefix(resolved.path, ScratchRoot \o <<"/">>)

\* createFile("a/b") resolved to /scratch/a/b and wrote the file there
C25_Witness ==
    /\ fret.op = "createFile" /\ fret.path = <<"a", "/", "b">> /\ ~fret.isError
    /\ resolvePath(ScratchRoot, fret.path).path = <<"/", "scratch", "/", "a", "/", "b">>
    /\ <<"/", "scratch", "/", "a", "/", "b">> \in DOMAIN fs
    /\ fs[<<"/", "scratch", "/", "a", "/", "b">>] = FileNode(<<"pwned">>)

\* C26: readFile or createFile on a path that passes through a symbolic link
\* inside the root pointing outside it (to a file, to a directory, nested, or
\* dangling) returns an error result, reads nothing from outside the root and
\* creates nothing there; a path through a link to the inside is served.
C26_SymlinkEscapeRejected ==
    LET underRoot(path) == path = ScratchRoot \/ HasPrefix(path, ScratchRoot \o <<"/">>)
        segs == Segments(Join(ScratchRoot, fret.path))
        throughOutsideLink ==
            \E n \in 1..Len(segs) :
               LET at == <<"/">> \o JoinSegs(SubSeq(segs, 1, n))
               IN at \in DOMAIN fs /\ fs[at].kind = "link" /\ ~underRoot(fs[at].data)
        outside == {l \in DOMAIN fs : ~underRoot(l) /\ ~HasPrefix(ScratchRoot, l)}
    IN /\ (fret.op \in {"readFile", "createFile"}
             /\ resolvePath(ScratchRoot, fret.path).err = ""
             /\ throughOutsideLink) =>
                /\ fret.isError
                /\ fret.text # <<"sensitive info">>
       /\ \A l \in outside : l \in DOMAIN PlainFiles /\ fs[l] = PlainFiles[l]
       /\ (fret.op = "readFile" /\ fret.path = <<"link_to_inner", "/", "target">>
             /\ <<"/", "scratch", "/", "link_to_inner">> \in DOMAIN fs
             /\ <<"/", "scratch", "/", "inner", "/", "target">> \in DOMAIN fs) =>
                (~fret.isError /\ fret.text = fs[<<"/", "scratch", "/", "inner", "/", "target">>].data)

\* C27: a relative path whose file name begins with two dots without being a
\* parent-directory element is accepted: createFile on it succeeds and leaves
\* the file under the root, and readFile on it then returns the content.
C27_DoubleDotNameAccepted ==
    (fret.path = <<".", ".", "hidden">>
        /\ \A n \in 1..Len(Segments(Clean(fret.path))) :
              Segments(Clean(fret.path))[n] # <<".", ".">>) =>
       /\ fret.op = "createFile" =>
             /\ ~fret.isError
             /\ <<"/", "scratch", "/", ".", ".", "hidden">> \in DOMAIN fs
       /\ (fret.op = "readFile" /\ <<"/", "scratch", "/", ".", ".", "hidden">> \in DOMAIN fs) =>
             (~fret.isError /\ fret.text = fs[<<"/", "scratch", "/", ".", ".", "hidden">>].data)

\* C28: a file operation given a path that violates the sandbox returns an
\* error and leaves the filesystem exactly as it was before the call, also
\* for the files of a multi-file operation that preceded the violation.
C28_ViolationChangesNothing ==
    /\ (fret.op \in {"createFile", "readFile", "deleteFile"}
          /\ resolvePath(ScratchRoot, fret.path).err # "") =>
             (fret.isError /\ ~fret.changed)
    /\ (fret.op # "" /\ fret.isError /\ fret.text[1] \in {"absolute paths are not allowed", "path must not contain '..'",
                           "path escapes the scratch directory"}) => ~fret.changed


\* C36: SetStatus(id, status, message) on an existing record changes only that
\* record's status, message and, for a terminal status, end time; its id, job
\* type and start time and every other record of the registry are unchanged.
C36_SetStatusFrame ==
    [][(ret'.op = "SetStatus" /\ calls' = calls + 1 /\ ret'.ok) =>
          LET k == ToLower(ret'.id)
          IN /\ DOMAIN tasks' = DOMAIN tasks
             /\ \A other \in DOMAIN tasks \ {k} : tasks'[other] = tasks[other]
             /\ tasks'[k].ID = tasks[k].ID
             /\ tasks'[k].ToolName = tasks[k].ToolName
             /\ tasks'[k].StartTime = tasks[k].StartTime
             /\ tasks'[k].Status = ret'.status
             /\ tasks'[k].Message = "msg"
             /\ tasks'[k].EndTime = IF IsTerminal(ret'.status) THEN now
                                    ELSE tasks[k].EndTime]_vars

\* SetStatus completed one of two records, addressed in another letter case
\* than it was created with, after the clock had moved on
C36_Witness ==
    /\ ret.op = "SetStatus" /\ ret.ok /\ ret.status = "completed"
    /\ Cardinality(DOMAIN tasks) = 2
    /\ tasks[ToLower(ret.id)].ID # ret.id
    /\ tasks[ToLower(ret.id)].Status = "completed"
    /\ tasks[ToLower(ret.id)].EndTime = 2
    /\ tasks[ToLower(ret.id)].StartTime = 1


\* C35: copyResourceTree copies a resource only if its URI equals the prefix,
\* or starts with the prefix and either continues with "/" or the prefix ends
\* in "/"; a URI that only shares the text of the prefix is not copied; a
\* successful call has written every matching resource, and a call that
\* matches nothing returns an error and writes no file.
C35_PrefixBoundaryMatch ==
    [][\A prefix \in ResourcePrefixes, dest \in DestPaths :
          CopyResourceTreeOp(prefix, dest) =>
             LET matches(uri) ==
                     \/ uri = prefix
                     \/ /\ Len(uri) > Len(prefix)
                        /\ SubSeq(uri, 1, Len(prefix)) = prefix
                        /\ (uri[Len(prefix) + 1] = "/" \/ prefix[Len(prefix)] = "/")
                 matched == {uri \in DOMAIN ResourceMap : matches(uri)}
                 rest(uri) == TrimPrefix(TrimPrefix(uri, prefix), <<"/">>)
                 target(uri) == Join(ScratchRoot, Join(dest, rest(uri)))
             IN /\ matched = {} => (fret'.isError /\ fs' = fs)
                /\ \A l \in DOMAIN fs' :
                      (fs'[l].kind = "file" /\ (l \notin DOMAIN fs \/ fs[l] # fs'[l])) =>
                         \E uri \in matched : l = target(uri) /\ fs'[l].data = ResourceMap[uri]
                /\ ~fret'.isError =>
                      \A uri \in matched :
                         /\ target(uri) \in DOMAIN fs'
                         /\ fs'[target(uri)] = FileNode(ResourceMap[uri])]_vars

\* copyResourceTree("a/", "out") copied a/f to out/f and nothing else
C35_Witness ==
    /\ fret.op = "copyResourceTree" /\ fret.path = <<"out">> /\ ~fret.isError
    /\ <<"/", "scratch", "/", "out", "/", "f">> \in DOMAIN fs
    /\ fs[<<"/", "scratch", "/", "out", "/", "f">>] = FileNode(<<"content1">>)
    /\ <<"/", "scratch", "/", "out", "/", "x", "/", "f">> \notin DOMAIN fs
    /\ <<"/", "scratch", "/", "a">> \notin DOMAIN fs

\* C37: the result of copyResourceTree and the files it leaves in the scratch
\* space are the same for every iteration order of the resource map, also
\* when it fails part-way.
C37_OrderIndependent ==
    [][\A prefix \in ResourcePrefixes, dest \in DestPaths :
          CopyResourceTreeOp(prefix, dest) =>
             \A order \in Orders(MatchedURIs(ResourceMap, prefix)) :
                LET res == copyResourceTree(fs, ResourceMap, ScratchRoot, prefix, dest, order)
                IN /\ res.fs = fs'
                   /\ res.isError = fret'.isError
                   /\ res.text = fret'.text]_vars


\* C34: every executeCommand invocation eventually returns to its caller, also
\* when the timeout has expired and processes started by the shell command
\* still run or hold the output pipe open.
C34_EventuallyReturns ==
    \A r \in Runs : <>(runs[r].pc = "returned")


\* C31: a request that omits a parameter the tool declares is rejected with an
\* error before the command is built: no command is executed, no admission
\* check is made and no job record is created.
C31_MissingParameterRejected ==
    [][\A h \in Handlers, arguments \in RequestArguments :
          ((\E n \in 1..Len(ToolParameters) : ToolParameters[n] \notin DOMAIN arguments)
              /\ HHandler(h, arguments)) =>
             /\ hresp'[h] \in {"required argument not found", "argument is not a string"}
             /\ hpc'[h] = "idle"
             /\ htool'[h] = htool[h]
             /\ tasks' = tasks
             /\ gpc' = gpc
             /\ nextJob' = nextJob
             /\ runs' = runs]_vars

\* a request without its arguments was answered with the error while the job
\* of an earlier, complete request is running; there is still only that job
C31_Witness ==
    /\ hresp[1] = "required argument not found" /\ hpc[1] = "idle"
    /\ hresp[2] = "accepted"
    /\ nextJob = 1 /\ gpc = <<"exec", "none">>
    /\ DOMAIN tasks = {JobId(1)}


C33_ReturnsWithoutWaiting ==
    /\ [](\A h \in Handlers :
            /\ hpc[h] \in {"idle", "check", "create", "respond"}
            /\ (hostAlive /\ hpc[h] = "respond") => ENABLED HRespond(h))
    /\ [][\A h \in Handlers :
            /\ (hpc[h] = "create" /\ hpc'[h] # "create") =>
                  /\ hpc'[h] = "respond"
                  /\ ToLower(hjob'[h]) \in DOMAIN tasks' \ DOMAIN tasks
            /\ (hpc[h] = "respond" /\ hpc'[h] # "respond") =>
                  /\ hresp'[h] = "accepted"
                  /\ tasks' = tasks /\ gpc' = gpc]_vars

\* the handle was returned while the job is pending and its goroutine has
\* not made a step
C33_Witness ==
    /\ hresp[1] = "accepted" /\ hpc[1] = "idle"
    /\ nextJob = 1 /\ gpc[1] = "start"
    /\ tasks[JobId(1)].Status = "pending"

====
